---- MODULE Spec2Model ----
(***************************************************************************)
(* State-machine model of the vTPM device: the TIS register engine         *)
(* (devices/src/tpm_tis.rs) driving the swtpm emulator bridge             *)
(* (vtpm/src/tpm_backend.rs).                                              *)
(*                                                                         *)
(* Registers are modelled as sets of bit positions: a u8 is a subset of    *)
(* 0..7, a u32 a subset of 0..31; `&` is \cap, `|` is \cup, `!` is the     *)
(* complement in the register's width.  Bytes moved through the FIFO are   *)
(* numbers 0..255.  A Rust panic (index out of bounds, failed assert,      *)
(* arithmetic overflow in a build with overflow checks) ends the device:   *)
(* the variable `panicked` becomes TRUE and nothing else is observable.    *)
(*                                                                         *)
(* The byte transport under the control channel (vtpm/src/char.rs) and the *)
(* emulator process behind it are the environment: each round trip's       *)
(* outcome is an input of the action that makes it.                        *)
(***************************************************************************)
EXTENDS Integers, Sequences, FiniteSets, TLC

(***************************************************************************)
(* Bounds of the model                                                     *)
(***************************************************************************)
\* highest locality selector (address bits [14:12]) the guest uses; 5 is
\* the first selector that names no locality record
MaxLocSel == 5
\* largest buffer size the emulator reports in its answer to SetBufferSize;
\* when it refuses the command the device falls back to 4096
MaxBeBufferSize == 0

(***************************************************************************)
(* Program constants, tpm_tis.rs:19-70                                     *)
(***************************************************************************)
TPM_TIS_NUM_LOCALITIES == 5
TPM_TIS_BUFFER_MAX == 4096
TPM_TIS_NO_LOCALITY == 255
TPM_TIS_NO_DATA_BYTE == 255

TPM_TIS_ACCESS_TPM_REG_VALID_STS == {7}
TPM_TIS_ACCESS_ACTIVE_LOCALITY == {5}
TPM_TIS_ACCESS_BEEN_SEIZED == {4}
TPM_TIS_ACCESS_SEIZE == {3}
TPM_TIS_ACCESS_PENDING_REQUEST == {2}
TPM_TIS_ACCESS_REQUEST_USE == {1}

TPM_TIS_STS_TPM_FAMILY2_0 == {26}
TPM_TIS_STS_TPM_FAMILY_MASK == {26, 27}
TPM_TIS_STS_RESET_ESTABLISHMENT_BIT == {25}
TPM_TIS_STS_COMMAND_CANCEL == {24}
TPM_TIS_STS_VALID == {7}
TPM_TIS_STS_COMMAND_READY == {6}
TPM_TIS_STS_TPM_GO == {5}
TPM_TIS_STS_DATA_AVAILABLE == {4}
TPM_TIS_STS_EXPECT == {3}
TPM_TIS_STS_SELFTEST_DONE == {2}
TPM_TIS_STS_RESPONSE_RETRY == {1}

TPM_TIS_INT_ENABLED == {31}
TPM_TIS_INT_POLARITY_MASK == {3, 4}
TPM_TIS_INT_POLARITY_LOW_LEVEL == {3}
TPM_TIS_INT_COMMAND_READY == {7}
TPM_TIS_INT_LOCALITY_CHANGED == {2}
TPM_TIS_INT_STS_VALID == {1}
TPM_TIS_INT_DATA_AVAILABLE == {0}
TPM_TIS_INTERRUPTS_SUPPORTED == {0, 1, 2, 7}

TPM_TIS_IFACE_ID_SUPPORTED_FLAGS2_0 == {8, 13}
TPM_TIS_IFACE_ID_INT_SEL_LOCK == {19}

\* tpm_backend.rs:38, the only capability bit cancel_cmd looks at
PTM_CAP_CANCEL_TPM_CMD == {5}

Bits8 == 0..7
Bits32 == 0..31
Not8(x) == Bits8 \ x
Not32(x) == Bits32 \ x

\* the locality records of a TPMIsa, indexed as Vec<TPMLocality>
Localities == 0..(TPM_TIS_NUM_LOCALITIES - 1)
\* every `for l in 0..TPM_TIS_NUM_LOCALITIES-1` of the source: the range is
\* half-open, so it visits 0..3
ScanRange == 0..(TPM_TIS_NUM_LOCALITIES - 2)

TPMTISState ==
  {"TpmTisStateIdle", "TpmTisStateReady", "TpmTisStateCompletion",
   "TpmTisStateExecution", "TpmTisStateReception"}

\* Option<TPMBackendCmd>: `some` is FALSE for None
NoCmd ==
  [some |-> FALSE, locty |-> 0, input |-> <<>>, input_len |-> 0,
   output |-> <<>>, output_len |-> 0, selftest_done |-> FALSE]

VARIABLES
  dev,              \* the TPMIsa object, its TPMEmulator in dev.be
  panicked,         \* a handler panicked: the device is gone
  overflow_checks,  \* the build traps integer overflow (debug profile)
  emu,              \* what the emulator answered while the device was built
  ctl               \* the callers inside the backend's channel code

vars == <<dev, panicked, overflow_checks, emu, ctl>>

(***************************************************************************)
(* Handlers are translated as functions from machine to machine.  A        *)
(* machine is the TPMIsa record plus what one call produces: `panic`,      *)
(* the control-channel events `log`, the times the interrupt line was      *)
(* triggered `irq`, the data-channel transfers `xfer`, and the times the   *)
(* backend was handed a request `delivers`.                                *)
(***************************************************************************)
Panic(m) == [m EXCEPT !.panic = TRUE]

\* self.locs[l]: indexing past the five records panics
ValidIdx(m, l) == ~m.panic /\ l \in Localities

\* tpm_tis.rs:73-75
tpm_tis_locality_from_addr(sel) == sel % 8

\* tpm_tis.rs:238-240
trigger_interrupt(m) == [m EXCEPT !.irq = @ + 1]

\* the interrupt recorded whether or not the locality enabled it
RaiseIrqAlways(m, locty, irqmask) ==
  IF m.panic \/ ~(locty < 5) THEN m
  ELSE [m EXCEPT !.locs[locty].ints = @ \cup irqmask]

\* tpm_tis.rs:262-271
tpm_tis_raise_irq(m, locty, irqmask) ==
  IF m.panic \/ ~(locty < 5) THEN m
  ELSE IF (m.locs[locty].inte \cap TPM_TIS_INT_ENABLED # {})
          /\ (m.locs[locty].inte \cap irqmask # {})
       THEN [m EXCEPT !.locs[locty].ints = @ \cup irqmask]
       ELSE m

\* the flags set on top of the register as it is, nothing cleared
StsSetKeepsAll(m, locality, flags) ==
  IF ~ValidIdx(m, locality) THEN Panic(m)
  ELSE [m EXCEPT !.locs[locality].sts = @ \cup flags]

\* tpm_tis.rs:341-344
tpm_tis_sts_set(m, locality, flags) ==
  IF ~ValidIdx(m, locality) THEN Panic(m)
  ELSE [m EXCEPT !.locs[locality].sts =
          (@ \cap (TPM_TIS_STS_SELFTEST_DONE \cup TPM_TIS_STS_TPM_FAMILY_MASK))
          \cup flags]

\* the index moved and the flags of the old active locality reset, the new
\* one not flagged
NewActiveLocalityUnflagged(m, new_active_locality) ==
  IF m.panic THEN m
  ELSE
    LET old == m.active_locty
        m1 == IF old # new_active_locality /\ old < 5
              THEN [m EXCEPT !.locs[old].access =
                      @ \cap Not8(TPM_TIS_ACCESS_ACTIVE_LOCALITY
                                  \cup TPM_TIS_ACCESS_REQUEST_USE)]
              ELSE m
    IN [m1 EXCEPT !.active_locty = new_active_locality]

\* the switch without the seize case: the old active locality is not marked
NewActiveLocalityNoSeized(m, new_active_locality) ==
  IF m.panic THEN m
  ELSE
    LET change == m.active_locty # new_active_locality
        old == m.active_locty
        m1 == IF change /\ old < 5
              THEN [m EXCEPT !.locs[old].access =
                      @ \cap Not8(TPM_TIS_ACCESS_ACTIVE_LOCALITY
                                  \cup TPM_TIS_ACCESS_REQUEST_USE)]
              ELSE m
        m2 == [m1 EXCEPT !.active_locty = new_active_locality]
        m3 == IF new_active_locality < 5
              THEN [m2 EXCEPT !.locs[new_active_locality].access =
                      (@ \cup TPM_TIS_ACCESS_ACTIVE_LOCALITY)
                      \cap Not8(TPM_TIS_ACCESS_REQUEST_USE
                                \cup TPM_TIS_ACCESS_SEIZE)]
              ELSE m2
    IN IF change
       THEN tpm_tis_raise_irq(m3, m3.active_locty, TPM_TIS_INT_LOCALITY_CHANGED)
       ELSE m3

\* the switch that leaves the old active locality's flags as they are
NewActiveLocalityMutant(m, new_active_locality) ==
  IF m.panic THEN m
  ELSE
    LET m2 == [m EXCEPT !.active_locty = new_active_locality]
    IN IF new_active_locality < 5
       THEN [m2 EXCEPT !.locs[new_active_locality].access =
               (@ \cup TPM_TIS_ACCESS_ACTIVE_LOCALITY)
               \cap Not8(TPM_TIS_ACCESS_REQUEST_USE \cup TPM_TIS_ACCESS_SEIZE)]
       ELSE m2

\* tpm_tis.rs:294-326
tpm_tis_new_active_locality(m, new_active_locality) ==
  IF m.panic THEN m
  ELSE
    LET change == m.active_locty # new_active_locality
        is_seize == /\ new_active_locality < 5
                    /\ m.locs[new_active_locality].access
                         \cap TPM_TIS_ACCESS_SEIZE # {}
        mask == IF is_seize
                THEN Not8(TPM_TIS_ACCESS_ACTIVE_LOCALITY)
                ELSE Not8(TPM_TIS_ACCESS_ACTIVE_LOCALITY
                          \cup TPM_TIS_ACCESS_REQUEST_USE)
        old == m.active_locty
        \* reset flags on the old active locality
        m1 == IF change /\ old < 5
              THEN [m EXCEPT !.locs[old].access =
                      IF is_seize
                      THEN (@ \cap mask) \cup TPM_TIS_ACCESS_BEEN_SEIZED
                      ELSE @ \cap mask]
              ELSE m
        m2 == [m1 EXCEPT !.active_locty = new_active_locality]
        \* set flags on the new active locality
        m3 == IF new_active_locality < 5
              THEN [m2 EXCEPT !.locs[new_active_locality].access =
                      (@ \cup TPM_TIS_ACCESS_ACTIVE_LOCALITY)
                      \cap Not8(TPM_TIS_ACCESS_REQUEST_USE
                                \cup TPM_TIS_ACCESS_SEIZE)]
              ELSE m2
    IN IF change
       THEN tpm_tis_raise_irq(m3, m3.active_locty, TPM_TIS_INT_LOCALITY_CHANGED)
       ELSE m3

(***************************************************************************)
(* Backend bridge, tpm_backend.rs.  `out` is what the environment does to  *)
(* one control round trip: "wfail" (the write fails), "rfail" (the read    *)
(* fails), "err" (answered, non-zero TPM result) or "ok" (answered,        *)
(* result 0).                                                              *)
(***************************************************************************)
CtrlOutcomes == {"wfail", "rfail", "err", "ok"}

\* tpm_backend.rs:256-302; the return value is CtrlRc(out)
tpm_emulator_ctrlcmd(m, cmd, out) ==
  IF m.panic THEN m
  ELSE [m EXCEPT !.log =
          @ \o (IF out = "wfail"
                THEN <<<<"lock">>, <<"write", cmd>>, <<"unlock">>>>
                ELSE <<<<"lock">>, <<"write", cmd>>, <<"read", cmd>>, <<"unlock">>>>)]

CtrlRc(out) == IF out \in {"wfail", "rfail"} THEN -1 ELSE 0

\* the flag asked for on every call, the cache not looked at
GetEstablishedUncached(m, e) ==
  IF m.panic THEN m
  ELSE LET m1 == tpm_emulator_ctrlcmd(m, "CmdGetTpmEstablished", e.est)
       IN IF CtrlRc(e.est) < 0 THEN m1
          ELSE [m1 EXCEPT !.be.established_flag_cached = 1,
                          !.be.established_flag = IF e.est_bit # 0 THEN 1 ELSE 0]

\* tpm_backend.rs:410-431; the return value is EstablishedRet(m, e)
get_tpm_established_flag(m, e) ==
  IF m.panic \/ m.be.established_flag_cached = 1 THEN m
  ELSE LET m1 == tpm_emulator_ctrlcmd(m, "CmdGetTpmEstablished", e.est)
       IN IF CtrlRc(e.est) < 0 THEN m1
          ELSE [m1 EXCEPT !.be.established_flag_cached = 1,
                          !.be.established_flag = IF e.est_bit # 0 THEN 1 ELSE 0]

EstablishedRet(m, e) ==
  IF m.be.established_flag_cached = 1 THEN m.be.established_flag = 1
  ELSE IF CtrlRc(e.est) < 0 THEN FALSE
  ELSE e.est_bit # 0

\* the cache invalidated whatever the round trip returned
ResetEstablishedAlways(m, e) ==
  IF m.panic \/ m.be.version # "TpmVersionTwo" THEN m
  ELSE [tpm_emulator_ctrlcmd(m, "CmdResetTpmEstablished", e.reset)
          EXCEPT !.be.established_flag_cached = 0]

\* tpm_backend.rs:433-462; the return value is ResetEstablishedRc(m, e)
reset_tpm_established_flag(m, e) ==
  IF m.panic \/ m.be.version # "TpmVersionTwo" THEN m
  ELSE LET m1 == tpm_emulator_ctrlcmd(m, "CmdResetTpmEstablished", e.reset)
       IN IF e.reset = "ok"
          THEN [m1 EXCEPT !.be.established_flag_cached = 0]
          ELSE m1

\* the return value of reset_tpm_established_flag
ResetEstablishedRc(m, e) ==
  IF m.be.version # "TpmVersionTwo" \/ e.reset = "ok" THEN 0 ELSE -1

\* tpm_backend.rs:474-491
cancel_cmd(m, e) ==
  IF m.panic \/ ~(PTM_CAP_CANCEL_TPM_CMD \subseteq m.be.caps) THEN m
  ELSE tpm_emulator_ctrlcmd(m, "CmdCancelTpmCmd", e.cancel)

\* SetLocality sent for every command, the cached locality not looked at
SetLocalityAlways(m, e) ==
  IF m.panic \/ ~m.be.cmd.some THEN m
  ELSE LET m1 == tpm_emulator_ctrlcmd(m, "CmdSetLocality", e.setloc)
       IN IF e.setloc = "ok"
          THEN [m1 EXCEPT !.be.cur_locty_number = m.be.cmd.locty]
          ELSE m1

\* tpm_backend.rs:493-525; the return value is SetLocalityRc(m, e)
set_locality(m, e) ==
  IF m.panic \/ ~m.be.cmd.some \/ m.be.cur_locty_number = m.be.cmd.locty THEN m
  ELSE LET m1 == tpm_emulator_ctrlcmd(m, "CmdSetLocality", e.setloc)
       IN IF e.setloc = "ok"
          THEN [m1 EXCEPT !.be.cur_locty_number = m.be.cmd.locty]
          ELSE m1

SetLocalityRc(m, e) ==
  IF ~m.be.cmd.some THEN -1
  ELSE IF m.be.cur_locty_number = m.be.cmd.locty THEN 0
  ELSE IF e.setloc = "ok" THEN 0 ELSE -1

\* big-endian u32 at seq[off+1 .. off+4] (0-based offset off); the caller
\* has checked that the slice exists
BE32(seq, off) ==
  ((seq[off + 1] * 256 + seq[off + 2]) * 256 + seq[off + 3]) * 256 + seq[off + 4]

TPM_REQ_HDR_SIZE == 10
TPM_ORD_SELFTEST == 83

\* tpm_backend.rs:50-56 with the input already known to hold in_len bytes
tpm_util_is_selftest(input, in_len) ==
  in_len >= TPM_REQ_HDR_SIZE /\ BE32(input, 6) = TPM_ORD_SELFTEST

\* tpm_backend.rs:339-365.  sendmsg on the stream socket returns the number
\* of bytes it sent; e.data = "error" is a failed sendmsg or recvfrom, which
\* the .expect() turns into a panic.  The response lands in the backend's
\* own copy of the descriptor.  The return value is UnixTxBufsRc(m).
unix_tx_bufs(m, e) ==
  IF m.panic \/ ~m.be.cmd.some THEN m
  ELSE
    LET cmd == m.be.cmd
        armed == cmd.selftest_done
        \* slicing input[6..10] of a shorter vector panics
        short == armed /\ cmd.input_len >= TPM_REQ_HDR_SIZE /\ Len(cmd.input) < 10
        is_selftest == armed /\ ~short /\ tpm_util_is_selftest(cmd.input, cmd.input_len)
        ret == Len(cmd.input)
        resp == [i \in 1..Len(cmd.output) |->
                   IF i <= Len(e.resp) THEN e.resp[i] ELSE cmd.output[i]]
    IN IF short \/ e.data = "error" THEN Panic(m)
       ELSE LET m1 == [m EXCEPT !.be.cmd.selftest_done = FALSE,
                                !.xfer = @ \o <<cmd.input>>]
            IN IF ret # 0 THEN m1
               ELSE IF is_selftest /\ Len(resp) < 10 THEN Panic(m1)
               ELSE [m1 EXCEPT !.be.cmd.output = resp,
                               !.be.cmd.selftest_done =
                                  is_selftest /\ BE32(resp, 6) = 0]

UnixTxBufsRc(m) == IF m.be.cmd.some /\ Len(m.be.cmd.input) # 0 THEN -1 ELSE 0

\* tpm_backend.rs:527-529
tpm_backend_request_completed(m) ==
  IF m.panic THEN m ELSE [m EXCEPT !.be.cmd = NoCmd]

\* tpm_backend.rs:532-540; the return value is HandleRequestRc(m, e)
handle_request(m, e) ==
  IF m.panic \/ ~m.be.cmd.some THEN m
  ELSE LET m1 == set_locality(m, e)
       IN IF SetLocalityRc(m, e) < 0 THEN m1 ELSE unix_tx_bufs(m1, e)

HandleRequestRc(m, e) ==
  IF ~m.be.cmd.some THEN -1
  ELSE IF SetLocalityRc(m, e) < 0 \/ UnixTxBufsRc(m) < 0 THEN -1 ELSE 0

\* tpm_backend.rs:542-550
worker_thread(m, e) ==
  LET m1 == handle_request(m, e)
  IN IF HandleRequestRc(m, e) < 0 THEN m1
     ELSE tpm_backend_request_completed(m1)

\* the descriptor taken whether or not one is outstanding
DeliverRequestOverwrite(m, e) ==
  IF m.panic THEN m
  ELSE worker_thread([m EXCEPT !.be.cmd = m.cmd, !.delivers = @ + 1], e)

\* tpm_backend.rs:552-560; the return value is DeliverRc(m, e)
deliver_request(m, e) ==
  IF m.panic THEN m
  ELSE IF ~m.be.cmd.some
       THEN worker_thread([m EXCEPT !.be.cmd = m.cmd, !.delivers = @ + 1], e)
       ELSE [m EXCEPT !.delivers = @ + 1]

DeliverRc(m, e) ==
  IF ~m.be.cmd.some
  THEN HandleRequestRc([m EXCEPT !.be.cmd = m.cmd], e)
  ELSE -1

(***************************************************************************)
(* TIS register engine, tpm_tis.rs                                         *)
(***************************************************************************)
\* tpm_tis.rs:243-246: slicing buffer[2..6] of a shorter vector panics
CmdSizePanics(m) == Len(m.buffer) < 6
tpm_cmd_get_size(m) == BE32(m.buffer, 2)

\* tpm_tis.rs:248-259
tpm_tis_check_request_use_except(m, locty) ==
  IF \E l \in ScanRange :
        l # locty /\ m.locs[l].access \cap TPM_TIS_ACCESS_REQUEST_USE # {}
  THEN 1 ELSE 0

\* tpm_tis.rs:394-396
tpm_backend_cancel_cmd(m, e) == cancel_cmd(m, e)

\* the abort that leaves the two pending fields as prep_abort set them
AbortLeavesPending(m) ==
  IF m.panic THEN m
  ELSE
    LET m0 == [m EXCEPT !.rw_offset = 0]
        a == m0.aborting_locty
        m1 == IF a = m0.next_locty
              THEN IF ~ValidIdx(m0, a) THEN Panic(m0)
                   ELSE tpm_tis_raise_irq(
                          tpm_tis_sts_set(
                            [m0 EXCEPT !.locs[a].state = "TpmTisStateReady"],
                            a, TPM_TIS_STS_COMMAND_READY),
                          a, TPM_TIS_INT_COMMAND_READY)
              ELSE m0
    IN tpm_tis_new_active_locality(m1, m1.next_locty)

\* tpm_tis.rs:398-417
tpm_tis_abort(m) ==
  IF m.panic THEN m
  ELSE
    LET m0 == [m EXCEPT !.rw_offset = 0]
        a == m0.aborting_locty
        m1 == IF a = m0.next_locty
              THEN IF ~ValidIdx(m0, a) THEN Panic(m0)
                   ELSE tpm_tis_raise_irq(
                          tpm_tis_sts_set(
                            [m0 EXCEPT !.locs[a].state = "TpmTisStateReady"],
                            a, TPM_TIS_STS_COMMAND_READY),
                          a, TPM_TIS_INT_COMMAND_READY)
              ELSE m0
        m2 == tpm_tis_new_active_locality(m1, m1.next_locty)
    IN IF m2.panic THEN m2
       ELSE [m2 EXCEPT !.next_locty = TPM_TIS_NO_LOCALITY,
                       !.aborting_locty = TPM_TIS_NO_LOCALITY]

\* tpm_tis.rs:420-444
tpm_tis_prep_abort(m, locty, newlocty, e) ==
  IF m.panic THEN m
  ELSE IF ~(newlocty < 5) THEN Panic(m)
  ELSE
    LET m1 == [m EXCEPT !.aborting_locty = locty, !.next_locty = newlocty]
    IN IF \E busy_locty \in ScanRange :
             m1.locs[busy_locty].state = "TpmTisStateExecution"
       THEN tpm_backend_cancel_cmd(m1, e)
       ELSE tpm_tis_abort(m1)

\* the completion run whatever deliver_request returned
DeliverCompletesAlways(m, e) ==
  IF m.panic \/ ~m.cmd.some THEN m
  ELSE
    LET m1 == deliver_request(m, e)
        locty == m.cmd.locty
    IN IF m1.panic THEN m1
       ELSE IF ~(locty < 5) THEN Panic(m1)
       ELSE
         LET m3 == tpm_tis_sts_set(m1, locty,
                     TPM_TIS_STS_VALID \cup TPM_TIS_STS_DATA_AVAILABLE)
             m4 == [m3 EXCEPT !.locs[locty].state = "TpmTisStateCompletion"]
             m5 == IF m4.next_locty < 5 THEN tpm_tis_abort(m4) ELSE m4
         IN tpm_tis_raise_irq(m5, locty,
              TPM_TIS_INT_DATA_AVAILABLE \cup TPM_TIS_INT_STS_VALID)

\* tpm_tis.rs:364-388
tpm_backend_deliver_request(m, e) ==
  IF m.panic \/ ~m.cmd.some THEN m
  ELSE
    LET m1 == deliver_request(m, e)
        locty == m.cmd.locty
    IN IF m1.panic \/ DeliverRc(m, e) # 0 THEN m1
       ELSE IF ~(locty < 5) THEN Panic(m1)
       ELSE
         LET m2 == IF m1.cmd.selftest_done
                   THEN [m1 EXCEPT !.locs =
                           [l \in Localities |->
                              IF l \in ScanRange
                              THEN [m1.locs[l] EXCEPT !.sts = @ \cup {2}]
                              ELSE m1.locs[l]]]
                   ELSE m1
             m3 == tpm_tis_sts_set(m2, locty,
                     TPM_TIS_STS_VALID \cup TPM_TIS_STS_DATA_AVAILABLE)
             m4 == [m3 EXCEPT !.locs[locty].state = "TpmTisStateCompletion"]
             m5 == IF m4.next_locty < 5 THEN tpm_tis_abort(m4) ELSE m4
         IN tpm_tis_raise_irq(m5, locty,
              TPM_TIS_INT_DATA_AVAILABLE \cup TPM_TIS_INT_STS_VALID)

\* tpm_tis.rs:446-465
tpm_tis_tpm_send(m, locty, e) ==
  IF ~ValidIdx(m, locty) THEN Panic(m)
  ELSE tpm_backend_deliver_request(
         [m EXCEPT !.locs[locty].state = "TpmTisStateExecution",
                   !.cmd = [some |-> TRUE, locty |-> locty,
                            input |-> m.buffer, input_len |-> m.rw_offset,
                            output |-> m.buffer,
                            output_len |-> m.be_buffer_size,
                            selftest_done |-> FALSE]],
         e)

SetMax(S) == CHOOSE x \in S : \A y \in S : y <= x

\* `self.locs[locty].access &= !TPM_TIS_ACCESS_BEEN_SEIZED`, tpm_tis.rs:524,530
ClearBeenSeized(m, locty) ==
  IF ~ValidIdx(m, locty) THEN Panic(m)
  ELSE [m EXCEPT !.locs[locty].access = @ \cap Not8(TPM_TIS_ACCESS_BEEN_SEIZED)]

\* the localities `for l in 0..locty-1` visits (tpm_tis.rs:562): the bound is
\* computed in u8, so for locty = 0 it traps in a build with overflow checks
\* and is 255 in one without
LowerSeizeRange(locty) ==
  IF locty = 0 THEN 0..254 ELSE 0..(locty - 2)

\* the localities `for l in locty+1..TPM_TIS_NUM_LOCALITIES-1` visits
\* (tpm_tis.rs:550)
HigherSeizeRange(locty) == (locty + 1)..(TPM_TIS_NUM_LOCALITIES - 2)

\* the comparison of the `while` turned round: a lower locality may seize
SeizeAllowedMutant(m, locty) ==
  (m.active_locty < 5 /\ locty < m.active_locty) \/ ~(m.active_locty < 5)

\* the condition of the `while` at tpm_tis.rs:541
SeizeAllowed(m, locty) ==
  (m.active_locty < 5 /\ locty > m.active_locty) \/ ~(m.active_locty < 5)

\* tpm_tis.rs:541-571, the body of the `while`, left by `break` on every path;
\* SeizeGranted tells whether it reached `set_new_locty = 0`
SeizeGranted(m, locty) ==
  /\ ValidIdx(m, locty)
  /\ m.locs[locty].access \cap TPM_TIS_ACCESS_SEIZE = {}
  /\ \A l \in HigherSeizeRange(locty) :
        m.locs[l].access \cap TPM_TIS_ACCESS_SEIZE = {}
  /\ ~(locty = 0 /\ overflow_checks)
  /\ LowerSeizeRange(locty) \subseteq Localities

SeizeBody(m, locty, e) ==
  IF ~ValidIdx(m, locty) THEN Panic(m)
  ELSE IF m.locs[locty].access \cap TPM_TIS_ACCESS_SEIZE # {} THEN m
  ELSE IF \E l \in HigherSeizeRange(locty) :
             m.locs[l].access \cap TPM_TIS_ACCESS_SEIZE # {} THEN m
  ELSE IF locty = 0 /\ overflow_checks THEN Panic(m)
  ELSE IF ~(LowerSeizeRange(locty) \subseteq Localities) THEN Panic(m)
  ELSE
    LET m1 == [m EXCEPT !.locs =
                 [l \in Localities |->
                    IF l \in LowerSeizeRange(locty)
                    THEN [m.locs[l] EXCEPT !.access = @ \cap Not8(TPM_TIS_ACCESS_SEIZE)]
                    ELSE m.locs[l]]]
        m2 == [m1 EXCEPT !.locs[locty].access = @ \cup TPM_TIS_ACCESS_SEIZE]
    IN tpm_tis_prep_abort(m2, m2.active_locty, locty, e)

\* tpm_tis.rs:495-590, handle_write for TPM_TIS_REG_ACCESS
hw_access(m, locty, val0, e) ==
  LET val == IF val0 \cap TPM_TIS_ACCESS_SEIZE # {}
             THEN val0 \ (TPM_TIS_ACCESS_REQUEST_USE \cup TPM_TIS_ACCESS_ACTIVE_LOCALITY)
             ELSE val0
      \* ACTIVE_LOCALITY: give up the locality if currently owned
      release == val \cap TPM_TIS_ACCESS_ACTIVE_LOCALITY # {}
      giveup == release /\ m.active_locty = locty
      requesters == {c \in ScanRange :
                       m.locs[c].access \cap TPM_TIS_ACCESS_REQUEST_USE # {}}
      newlocty == IF requesters = {} THEN TPM_TIS_NO_LOCALITY ELSE SetMax(requesters)
      snl1 == IF giveup /\ newlocty < 5 THEN 0 ELSE -1
      al1 == IF giveup /\ ~(newlocty < 5) THEN TPM_TIS_NO_LOCALITY ELSE m.active_locty
      m1 == IF release /\ ~giveup THEN ClearBeenSeized(m, locty) ELSE m
      m2 == IF val \cap TPM_TIS_ACCESS_BEEN_SEIZED # {}
            THEN ClearBeenSeized(m1, locty) ELSE m1
      \* SEIZE
      try == ~m2.panic /\ val \cap TPM_TIS_ACCESS_SEIZE # {} /\ SeizeAllowed(m2, locty)
      snl2 == IF try /\ SeizeGranted(m2, locty) THEN 0 ELSE snl1
      m3 == IF try THEN SeizeBody(m2, locty, e) ELSE m2
      \* REQUEST_USE
      req == ~m3.panic /\ val \cap TPM_TIS_ACCESS_REQUEST_USE # {}
                /\ m3.active_locty # locty
      m4 == IF req /\ m3.active_locty < 5
            THEN IF ~ValidIdx(m3, locty) THEN Panic(m3)
                 ELSE [m3 EXCEPT !.locs[locty].access =
                         @ \cup TPM_TIS_ACCESS_REQUEST_USE]
            ELSE m3
      al2 == IF req /\ ~(m3.active_locty < 5) THEN locty ELSE al1
  IN IF snl2 # 0 THEN tpm_tis_new_active_locality(m4, al2) ELSE m4

(***************************************************************************)
(* Bytes and bit sets                                                      *)
(***************************************************************************)
Pow2(n) == 2 ^ n
\* the bits of a number 0 <= n < 2^31
BitsOfNum(n) == {i \in 0..30 : (n \div Pow2(i)) % 2 = 1}
\* the bits of n taken as a u32, n < 0 wrapping (two's complement)
BitsOfU32(n) == IF n >= 0 THEN BitsOfNum(n) ELSE Bits32 \ BitsOfNum(-n - 1)
Shl(bits, n) == {i + n : i \in bits} \cap Bits32
\* the byte at bits 8k..8k+7 of a register value
ByteAt(bits, k) ==
  LET b(i) == IF (8 * k + i) \in bits THEN Pow2(i) ELSE 0
  IN b(0) + b(1) + b(2) + b(3) + b(4) + b(5) + b(6) + b(7)
Shr(bits, n) == {i - n : i \in {j \in bits : j >= n}}
Min(a, b) == IF a < b THEN a ELSE b
U16(n) == n % 65536

\* tpm_tis.rs:886-895: the written bytes, padded with zeroes, read as a
\* little-endian u32
LittleEndianU32(data) ==
  UNION {{8 * (k - 1) + i : i \in BitsOfNum(data[k])} : k \in 1..Min(Len(data), 4)}

\* tpm_tis.rs:899
SizeMask(size) == IF size = 1 THEN 0..7 ELSE IF size = 2 THEN 0..15 ELSE Bits32

\* tpm_tis.rs:591-601, handle_write for TPM_TIS_REG_INT_ENABLE; mask is the
\* INT_ENABLE taken from any locality, active or not
IntEnableFromAnyLocality(m, locty, val, mask) ==
  IF m.panic THEN m
  ELSE IF ~ValidIdx(m, locty) THEN Panic(m)
  ELSE [m EXCEPT !.locs[locty].inte =
          (@ \cap mask)
          \cup (val \cap (TPM_TIS_INT_ENABLED \cup TPM_TIS_INT_POLARITY_MASK
                          \cup TPM_TIS_INTERRUPTS_SUPPORTED))]

\* complemented size mask
hw_int_enable(m, locty, val, mask) ==
  IF m.panic \/ m.active_locty # locty THEN m
  ELSE IF ~ValidIdx(m, locty) THEN Panic(m)
  ELSE [m EXCEPT !.locs[locty].inte =
          (@ \cap mask)
          \cup (val \cap (TPM_TIS_INT_ENABLED \cup TPM_TIS_INT_POLARITY_MASK
                          \cup TPM_TIS_INTERRUPTS_SUPPORTED))]

\* tpm_tis.rs:603-615, handle_write for TPM_TIS_REG_INT_STATUS
hw_int_status(m, locty, val) ==
  IF m.panic \/ m.active_locty # locty THEN m
  ELSE IF ~ValidIdx(m, locty) THEN Panic(m)
  ELSE
    LET ints == m.locs[locty].ints
        clearing == (val \cap TPM_TIS_INTERRUPTS_SUPPORTED # {})
                    /\ (ints \cap TPM_TIS_INTERRUPTS_SUPPORTED # {})
        ints1 == IF clearing THEN ints \cap Not32(val) ELSE ints
        m1 == IF clearing /\ ints1 = {} THEN trigger_interrupt(m) ELSE m
    IN [m1 EXCEPT !.locs[locty].ints =
          ints1 \cap Not32(val \cap TPM_TIS_INTERRUPTS_SUPPORTED)]

\* COMMAND_READY that takes an executing locality to Ready as it takes a
\* completed one
StsCommandReadyWhileExecuting(m, locty, e) ==
  LET st == m.locs[locty].state
  IN CASE st = "TpmTisStateReady" -> [m EXCEPT !.rw_offset = 0]
       [] st = "TpmTisStateIdle" ->
            tpm_tis_raise_irq(
              [tpm_tis_sts_set(m, locty, TPM_TIS_STS_COMMAND_READY)
                 EXCEPT !.locs[locty].state = "TpmTisStateReady"],
              locty, TPM_TIS_INT_COMMAND_READY)
       [] st = "TpmTisStateReception" -> tpm_tis_prep_abort(m, locty, locty, e)
       [] st \in {"TpmTisStateCompletion", "TpmTisStateExecution"} ->
            [tpm_tis_sts_set(
               [m EXCEPT !.rw_offset = 0, !.locs[locty].state = "TpmTisStateReady"],
               locty, TPM_TIS_STS_COMMAND_READY)
             EXCEPT !.locs[locty].sts = @ \cap Not32(TPM_TIS_STS_DATA_AVAILABLE)]

\* tpm_tis.rs:638-659, STS write of exactly COMMAND_READY
sts_command_ready(m, locty, e) ==
  LET st == m.locs[locty].state
  IN CASE st = "TpmTisStateReady" -> [m EXCEPT !.rw_offset = 0]
       [] st = "TpmTisStateIdle" ->
            tpm_tis_raise_irq(
              [tpm_tis_sts_set(m, locty, TPM_TIS_STS_COMMAND_READY)
                 EXCEPT !.locs[locty].state = "TpmTisStateReady"],
              locty, TPM_TIS_INT_COMMAND_READY)
       [] st = "TpmTisStateExecution" -> m
       [] st = "TpmTisStateReception" -> tpm_tis_prep_abort(m, locty, locty, e)
       [] st = "TpmTisStateCompletion" ->
            LET m1 == [m EXCEPT !.rw_offset = 0,
                                !.locs[locty].state = "TpmTisStateReady"]
                \* `!(sts & COMMAND_READY) != 0`: the `!` is the bitwise
                \* complement of a u32, which is never 0 here
                m2 == IF Not32(m1.locs[locty].sts \cap TPM_TIS_STS_COMMAND_READY) # {}
                      THEN tpm_tis_raise_irq(
                             tpm_tis_sts_set(m1, locty, TPM_TIS_STS_COMMAND_READY),
                             locty, TPM_TIS_INT_COMMAND_READY)
                      ELSE m1
            IN [m2 EXCEPT !.locs[locty].sts = @ \cap Not32(TPM_TIS_STS_DATA_AVAILABLE)]

\* TPM_GO without the test of the state: sent whenever EXPECT is clear
StsTpmGoAnyState(m, locty, e) ==
  IF m.locs[locty].sts \cap TPM_TIS_STS_EXPECT = {}
  THEN tpm_tis_tpm_send(m, locty, e)
  ELSE m

\* tpm_tis.rs:660-668, STS write of exactly TPM_GO
sts_tpm_go(m, locty, e) ==
  IF m.locs[locty].state = "TpmTisStateReception"
     /\ m.locs[locty].sts \cap TPM_TIS_STS_EXPECT = {}
  THEN tpm_tis_tpm_send(m, locty, e)
  ELSE m

\* tpm_tis.rs:669-679, STS write of exactly RESPONSE_RETRY
sts_response_retry(m, locty) ==
  IF m.locs[locty].state = "TpmTisStateCompletion"
  THEN tpm_tis_sts_set([m EXCEPT !.rw_offset = 0], locty,
         TPM_TIS_STS_VALID \cup TPM_TIS_STS_DATA_AVAILABLE)
  ELSE m

\* tpm_tis.rs:616-681, handle_write for TPM_TIS_REG_STS
hw_sts(m, locty, val0, e) ==
  IF m.panic \/ m.active_locty # locty THEN m
  ELSE
    LET val == val0 \cap (TPM_TIS_STS_COMMAND_READY \cup TPM_TIS_STS_TPM_GO
                          \cup TPM_TIS_STS_RESPONSE_RETRY)
        \* the paths that read self.locs[locty]
        indexes == \/ val0 \cap TPM_TIS_STS_COMMAND_CANCEL # {}
                   \/ val \in {TPM_TIS_STS_COMMAND_READY, TPM_TIS_STS_TPM_GO,
                               TPM_TIS_STS_RESPONSE_RETRY}
    IN IF ~(locty \in Localities)
       THEN IF indexes THEN Panic(m) ELSE m
       ELSE
         LET m1 == IF val0 \cap TPM_TIS_STS_COMMAND_CANCEL # {}
                      /\ m.locs[locty].state = "TpmTisStateExecution"
                   THEN tpm_backend_cancel_cmd(m, e) ELSE m
             m2 == IF val0 \cap TPM_TIS_STS_RESET_ESTABLISHMENT_BIT # {}
                      /\ (locty = 3 \/ locty = 4)
                   THEN reset_tpm_established_flag(m1, e) ELSE m1
         IN IF m2.panic THEN m2
            ELSE IF val = TPM_TIS_STS_COMMAND_READY THEN sts_command_ready(m2, locty, e)
            ELSE IF val = TPM_TIS_STS_TPM_GO THEN sts_tpm_go(m2, locty, e)
            ELSE IF val = TPM_TIS_STS_RESPONSE_RETRY THEN sts_response_retry(m2, locty)
            ELSE m2

(***************************************************************************)
(* Register map, tpm_tis.rs:59-70                                          *)
(***************************************************************************)
TPM_TIS_REG_ACCESS == 0
TPM_TIS_REG_INT_ENABLE == 8
TPM_TIS_REG_INT_VECTOR == 12
TPM_TIS_REG_INT_STATUS == 16
TPM_TIS_REG_INTF_CAPABILITY == 20
TPM_TIS_REG_STS == 24
TPM_TIS_REG_DATA_FIFO == 36
TPM_TIS_REG_INTERFACE_ID == 48
TPM_TIS_REG_DATA_XFIFO == 128
TPM_TIS_REG_DATA_XFIFO_END == 188
TPM_TIS_REG_DID_VID == 3840
TPM_TIS_REG_RID == 3844

TPM_TIS_CAPABILITIES_SUPPORTED2_0 == {0, 1, 2, 4, 7, 9, 10, 28, 29}
\* (TPM_TIS_TPM_DID << 16) | TPM_TIS_TPM_VID = 0x00011014
DidVid == {2, 4, 12, 16}
\* TPM_TIS_TPM_RID = 1
Rid == {0}

IsXfifo(offset) ==
  offset >= TPM_TIS_REG_DATA_XFIFO /\ offset <= TPM_TIS_REG_DATA_XFIFO_END

\* the write loop counting a byte it drops: the cursor moves on
RECURSIVE FifoWriteLoopAdvance(_, _, _, _)
FifoWriteLoopAdvance(m, locty, val, size) ==
  IF m.panic THEN m
  ELSE IF ~(m.locs[locty].sts \cap TPM_TIS_STS_EXPECT # {} /\ size > 0) THEN m
  ELSE IF m.rw_offset < U16(m.be_buffer_size)
       THEN IF m.rw_offset >= Len(m.buffer) THEN Panic(m)
            ELSE FifoWriteLoopAdvance(
                   [m EXCEPT !.buffer[m.rw_offset + 1] = ByteAt(val, 0),
                             !.rw_offset = @ + 1],
                   locty, Shr(val, 8), size - 1)
       ELSE FifoWriteLoopAdvance(
              tpm_tis_sts_set([m EXCEPT !.rw_offset = @ + 1], locty,
                              TPM_TIS_STS_VALID),
              locty, Shr(val, 8), size - 1)

\* tpm_tis.rs:699-708, the write loop; val is the value still to be stored
RECURSIVE FifoWriteLoop(_, _, _, _)
FifoWriteLoop(m, locty, val, size) ==
  IF m.panic THEN m
  ELSE IF ~(m.locs[locty].sts \cap TPM_TIS_STS_EXPECT # {} /\ size > 0) THEN m
  ELSE IF m.rw_offset < U16(m.be_buffer_size)
       THEN IF m.rw_offset >= Len(m.buffer) THEN Panic(m)
            ELSE FifoWriteLoop(
                   [m EXCEPT !.buffer[m.rw_offset + 1] = ByteAt(val, 0),
                             !.rw_offset = @ + 1],
                   locty, Shr(val, 8), size - 1)
       ELSE FifoWriteLoop(tpm_tis_sts_set(m, locty, TPM_TIS_STS_VALID),
                          locty, val, size)

\* tpm_tis.rs:709-724, check for a complete packet
FifoCheckComplete(m, locty) ==
  IF m.panic THEN m
  ELSE IF m.rw_offset > 5 /\ m.locs[locty].sts \cap TPM_TIS_STS_EXPECT # {}
       THEN IF CmdSizePanics(m) THEN Panic(m)
            ELSE
              LET need_irq == Not32(m.locs[locty].sts \cap TPM_TIS_STS_VALID) # {}
                  len == tpm_cmd_get_size(m)
                  m1 == IF len > m.rw_offset
                        THEN tpm_tis_sts_set(m, locty,
                               TPM_TIS_STS_EXPECT \cup TPM_TIS_STS_VALID)
                        ELSE tpm_tis_sts_set(m, locty, TPM_TIS_STS_VALID)
              IN IF need_irq
                 THEN tpm_tis_raise_irq(m1, locty, TPM_TIS_INT_STS_VALID)
                 ELSE m1
       ELSE m

\* the FIFO taking bytes from an idle locality as it does from a ready one
FifoIdleReceives(m, locty, offset, val, size0) ==
  IF m.panic \/ m.active_locty # locty THEN m
  ELSE IF ~ValidIdx(m, locty) THEN Panic(m)
  ELSE IF m.locs[locty].state \in {"TpmTisStateExecution", "TpmTisStateCompletion"}
       THEN m
  ELSE
    LET m1 == IF m.locs[locty].state \in {"TpmTisStateReady", "TpmTisStateIdle"}
              THEN tpm_tis_sts_set(
                     [m EXCEPT !.locs[locty].state = "TpmTisStateReception"],
                     locty, TPM_TIS_STS_EXPECT \cup TPM_TIS_STS_VALID)
              ELSE m
        shift == (offset % 4) * 8
        size == IF size0 > 4 - (offset % 4) THEN 4 - (offset % 4) ELSE size0
    IN FifoCheckComplete(FifoWriteLoop(m1, locty, Shr(val, shift), size), locty)

\* tpm_tis.rs:683-727, handle_write for the data FIFO
hw_xfifo(m, locty, offset, val, size0) ==
  IF m.panic \/ m.active_locty # locty THEN m
  ELSE IF ~ValidIdx(m, locty) THEN Panic(m)
  ELSE IF m.locs[locty].state \in
            {"TpmTisStateIdle", "TpmTisStateExecution", "TpmTisStateCompletion"}
       THEN m
  ELSE
    LET m1 == IF m.locs[locty].state = "TpmTisStateReady"
              THEN tpm_tis_sts_set(
                     [m EXCEPT !.locs[locty].state = "TpmTisStateReception"],
                     locty, TPM_TIS_STS_EXPECT \cup TPM_TIS_STS_VALID)
              ELSE m
        shift == (offset % 4) * 8
        size == IF size0 > 4 - (offset % 4) THEN 4 - (offset % 4) ELSE size0
    IN FifoCheckComplete(FifoWriteLoop(m1, locty, Shr(val, shift), size), locty)

\* tpm_tis.rs:728-734, handle_write for TPM_TIS_REG_INTERFACE_ID
hw_interface_id(m, val) ==
  IF m.panic \/ val \cap TPM_TIS_IFACE_ID_INT_SEL_LOCK = {} THEN m
  ELSE [m EXCEPT !.locs =
          [l \in Localities |->
             IF l \in ScanRange
             THEN [m.locs[l] EXCEPT !.iface_id = @ \cup TPM_TIS_IFACE_ID_INT_SEL_LOCK]
             ELSE m.locs[l]]]

\* tpm_tis.rs:467-741; the address is (locality selector, register offset),
\* the device base being aligned
handle_write(m, sel, offset, val0, mask0, size, e) ==
  LET locty == tpm_tis_locality_from_addr(sel)
      val == val0 \cap mask0
      mask == Not32(mask0)
  IN CASE offset = TPM_TIS_REG_ACCESS -> hw_access(m, locty, val, e)
       [] offset = TPM_TIS_REG_INT_ENABLE -> hw_int_enable(m, locty, val, mask)
       [] offset = TPM_TIS_REG_INT_VECTOR -> m
       [] offset = TPM_TIS_REG_INT_STATUS -> hw_int_status(m, locty, val)
       [] offset = TPM_TIS_REG_STS -> hw_sts(m, locty, val, e)
       [] offset = TPM_TIS_REG_DATA_FIFO -> m
       [] IsXfifo(offset) -> hw_xfifo(m, locty, offset, val, size)
       [] offset = TPM_TIS_REG_INTERFACE_ID -> hw_interface_id(m, val)
       [] OTHER -> [m EXCEPT !.err = "BadWriteOffset"]

\* tpm_tis.rs:881-914, BusDevice::write
write(m, sel, offset, data, e) ==
  IF Len(data) <= 4
  THEN handle_write(m, sel, offset, LittleEndianU32(data),
                    SizeMask(Len(data)), Len(data), e)
  ELSE m

(***************************************************************************)
(* BusDevice::read, tpm_tis.rs:745-879                                     *)
(***************************************************************************)
\* tpm_tis.rs:276-292; the byte read is left in m.byte
tpm_tis_data_read(m, locty) ==
  IF m.panic THEN m
  ELSE IF m.locs[locty].sts \cap TPM_TIS_STS_DATA_AVAILABLE # {}
       THEN IF CmdSizePanics(m) \/ m.rw_offset >= Len(m.buffer) THEN Panic(m)
            ELSE
              LET len == Min(U16(tpm_cmd_get_size(m)), U16(m.be_buffer_size))
                  m1 == [m EXCEPT !.byte = m.buffer[m.rw_offset + 1],
                                  !.rw_offset = @ + 1]
              IN IF m1.rw_offset >= len
                 THEN tpm_tis_sts_set(m1, locty, TPM_TIS_STS_VALID)
                 ELSE m1
       ELSE [m EXCEPT !.byte = TPM_TIS_NO_DATA_BYTE]

\* `(v << shift) as u32` with v: u8 (tpm_tis.rs:819): a shift of 8 or more
\* traps in a build with overflow checks; without them the amount is taken
\* modulo 8
ShlU8(v, shift) == (v * Pow2(shift % 8)) % 256

\* tpm_tis.rs:812-822, the read loop; the value read so far is m.val
RECURSIVE FifoReadLoop(_, _, _, _)
FifoReadLoop(m, locty, shift, size) ==
  IF m.panic \/ size = 0 THEN m
  ELSE
    LET m1 == IF m.locs[locty].state = "TpmTisStateCompletion"
              THEN tpm_tis_data_read(m, locty)
              ELSE [m EXCEPT !.byte = TPM_TIS_NO_DATA_BYTE]
    IN IF m1.panic THEN m1
       ELSE IF shift >= 8 /\ overflow_checks THEN Panic(m1)
       ELSE FifoReadLoop(
              [m1 EXCEPT !.val = @ \cup BitsOfNum(ShlU8(m1.byte, shift))],
              locty, shift + 8, size - 1)

\* tpm_tis.rs:782-802, read of TPM_TIS_REG_STS by the active locality
rd_sts(m, locty, size) ==
  IF ~ValidIdx(m, locty) THEN Panic(m)
  ELSE IF m.locs[locty].sts \cap TPM_TIS_STS_DATA_AVAILABLE # {}
       THEN IF CmdSizePanics(m) THEN Panic(m)
            ELSE
              LET d == Min(tpm_cmd_get_size(m), m.be_buffer_size) - m.rw_offset
              IN IF d < 0 /\ overflow_checks THEN Panic(m)
                 ELSE [m EXCEPT !.val = Shl(BitsOfU32(d), 8)
                                         \cup m.locs[locty].sts]
       ELSE
         LET avail0 == m.be_buffer_size - m.rw_offset
             avail == IF size = 1 /\ avail0 > 255 THEN 255 ELSE avail0
         IN [m EXCEPT !.val = Shl(BitsOfU32(avail), 8) \cup m.locs[locty].sts]

\* tpm_tis.rs:765-774, read of TPM_TIS_REG_ACCESS
rd_access(m, locty, e) ==
  IF ~ValidIdx(m, locty) THEN Panic(m)
  ELSE
    LET v0 == m.locs[locty].access \cap Not8(TPM_TIS_ACCESS_SEIZE)
        v1 == IF tpm_tis_check_request_use_except(m, locty) # 0
              THEN v0 \cup TPM_TIS_ACCESS_PENDING_REQUEST ELSE v0
        m1 == get_tpm_established_flag(m, e)
    IN [m1 EXCEPT !.val = IF EstablishedRet(m, e) THEN v1 ELSE v1 \cup {0}]

\* a field of self.locs[locty] read into val
RdLoc(m, locty, field) ==
  IF ~ValidIdx(m, locty) THEN Panic(m) ELSE [m EXCEPT !.val = m.locs[locty][field]]

\* tpm_tis.rs:839-863: the low `len` bytes of val, most significant first;
\* a buffer of any other length is left as it was (<<>> here)
ReadData(val, len) ==
  IF len \in 1..4 THEN [i \in 1..len |-> ByteAt(val, len - i)] ELSE <<>>

\* tpm_tis.rs:745-879; the result is left in m.data
read(m, sel, offset, len, e) ==
  LET locty == tpm_tis_locality_from_addr(sel)
      shift0 == (offset % 4) * 8
      m0 == [m EXCEPT !.val = Bits32]
      m1 == CASE offset = TPM_TIS_REG_ACCESS -> rd_access(m0, locty, e)
              [] offset = TPM_TIS_REG_INT_ENABLE -> RdLoc(m0, locty, "inte")
              [] offset = TPM_TIS_REG_INT_VECTOR -> [m0 EXCEPT !.val = BitsOfNum(m.irq_num)]
              [] offset = TPM_TIS_REG_INT_STATUS -> RdLoc(m0, locty, "ints")
              [] offset = TPM_TIS_REG_INTF_CAPABILITY ->
                   [m0 EXCEPT !.val = TPM_TIS_CAPABILITIES_SUPPORTED2_0]
              [] offset = TPM_TIS_REG_STS ->
                   IF m0.active_locty = locty THEN rd_sts(m0, locty, len) ELSE m0
              [] offset = TPM_TIS_REG_DATA_FIFO -> m0
              [] IsXfifo(offset) ->
                   IF m0.active_locty = locty
                   THEN IF ~ValidIdx(m0, locty) THEN Panic(m0)
                        ELSE FifoReadLoop([m0 EXCEPT !.val = {}], locty, 0,
                                          Min(len, 4))
                   ELSE m0
              [] offset = TPM_TIS_REG_INTERFACE_ID -> RdLoc(m0, locty, "iface_id")
              [] offset = TPM_TIS_REG_DID_VID -> [m0 EXCEPT !.val = DidVid]
              [] offset = TPM_TIS_REG_RID -> [m0 EXCEPT !.val = Rid]
              [] OTHER -> m0
      shift == IF IsXfifo(offset) /\ m0.active_locty = locty THEN 0 ELSE shift0
  IN IF m1.panic THEN m1
     ELSE [m1 EXCEPT !.data = ReadData(Shr(m1.val, shift), len)]

(***************************************************************************)
(* Construction, tpm_backend.rs:115-254, 304-320, 367-398, 464-472 and     *)
(* tpm_tis.rs:178-216.  `se` holds the environment's answer to each        *)
(* control round trip of the start-up.                                     *)
(***************************************************************************)
\* the interrupt number the device is constructed with (tpm_tis.rs:180)
IrqNum == 5

\* the capabilities check_caps requires of a TPM 2.0 (tpm_backend.rs:236-238)
RequiredCaps2_0 == {0, 1, 2, 3, 7, 10, 12, 13}

\* tpm_backend.rs:188-210
tpm_emulator_prepare_data_fd(m, se) ==
  tpm_emulator_ctrlcmd(m, "CmdSetDatafd", se.datafd)

\* tpm_ioctl.rs:72-78: the first eight bytes of the answer, read as a
\* big-endian u64
PtmCap_convert_to_ptm(buf) ==
  UNION {{8 * (8 - k) + i : i \in BitsOfNum(buf[k])} : k \in 1..8}

\* tpm_backend.rs:212-221: the answer is decoded into the local `caps`, a copy
\* of self.caps that is dropped on return; self.caps is byte-swapped in place
SwapBits64(caps) == {8 * (7 - (i \div 8)) + (i % 8) : i \in caps}
tpm_emulator_probe_caps(m, se) ==
  LET m1 == tpm_emulator_ctrlcmd(m, "CmdGetCapability", se.cap)
      caps == IF CtrlRc(se.cap) < 0 THEN m.be.caps
              ELSE PtmCap_convert_to_ptm(se.capbytes)
  IN IF CtrlRc(se.cap) < 0 THEN m1
     ELSE [m1 EXCEPT !.be.caps = SwapBits64(@)]

\* tpm_backend.rs:223-254
tpm_emulator_check_caps(m) ==
  IF m.be.version = "TpmVersionTwo" /\ RequiredCaps2_0 \subseteq m.be.caps
  THEN 0 ELSE -1

\* tpm_backend.rs:115-154
TPMEmulator_new(m, se) ==
  LET m1 == tpm_emulator_prepare_data_fd(m, se)
      e1 == CtrlRc(se.datafd) < 0
      m2 == tpm_emulator_probe_caps(m1, se)
      e2 == CtrlRc(se.cap) < 0 \/ tpm_emulator_check_caps(m2) # 0
      m3 == get_tpm_established_flag(m2, se)
      e3 == ~EstablishedRet(m2, se)
  IN [m3 EXCEPT !.be.had_startup_error = e1 \/ e2 \/ e3]

\* tpm_backend.rs:304-320; o is the outcome of the Stop round trip
tpm_emulator_stop_tpm(m, o) == tpm_emulator_ctrlcmd(m, "CmdStop", o)

\* SetBufferSize sent whatever became of the Stop
SetBufferSizeAfterAnyStop(m, stop, sbs) ==
  tpm_emulator_ctrlcmd(tpm_emulator_stop_tpm(m, stop), "CmdSetBufferSize", sbs)

\* tpm_backend.rs:367-398; the return value is SetBufferSizeRc(stop, sbs)
tpm_emulator_set_buffer_size(m, stop, sbs) ==
  LET m1 == tpm_emulator_stop_tpm(m, stop)
  IN IF stop # "ok" THEN m1
     ELSE tpm_emulator_ctrlcmd(m1, "CmdSetBufferSize", sbs)

SetBufferSizeRc(stop, sbs) == IF stop = "ok" /\ sbs = "ok" THEN 0 ELSE -1

\* tpm_backend.rs:464-472
get_buffer_size(se) ==
  IF SetBufferSizeRc(se.stop1, se.sbs1) < 0 THEN 4096 ELSE se.bufsize

\* tpm_backend.rs:156-186; the return value is StartupRc(buffersize, se)
tpm_emulator_startup_tpm(m, buffersize, se) ==
  LET m1 == IF buffersize # 0
            THEN tpm_emulator_set_buffer_size(m, se.stop2, se.sbs2) ELSE m
  IN IF buffersize # 0 /\ SetBufferSizeRc(se.stop2, se.sbs2) < 0 THEN m1
     ELSE tpm_emulator_ctrlcmd(m1, "CmdInit", se.init)

StartupRc(buffersize, se) ==
  IF buffersize # 0 /\ SetBufferSizeRc(se.stop2, se.sbs2) < 0 THEN -1
  ELSE IF se.init = "ok" THEN 0 ELSE -1

\* tpm_tis.rs:185-192
InitLocality ==
  [state |-> "TpmTisStateIdle",
   access |-> TPM_TIS_ACCESS_TPM_REG_VALID_STS,
   sts |-> TPM_TIS_STS_TPM_FAMILY2_0,
   iface_id |-> TPM_TIS_IFACE_ID_SUPPORTED_FLAGS2_0,
   inte |-> TPM_TIS_INT_POLARITY_LOW_LEVEL,
   ints |-> {}]

\* tpm_backend.rs:122-134
InitEmulator ==
  [had_startup_error |-> FALSE, cmd |-> NoCmd, version |-> "TpmVersionTwo",
   caps |-> {}, cur_locty_number |-> 255,
   established_flag_cached |-> 0, established_flag |-> 0]

\* what one call leaves beside the device state
Transient ==
  [panic |-> FALSE, log |-> <<>>, irq |-> 0, xfer |-> <<>>, delivers |-> 0,
   err |-> "Ok", val |-> {}, byte |-> 0, data |-> <<>>]

\* tpm_tis.rs:178-216
TPMIsa_new(se) ==
  LET m0 == [buffer |-> <<>>, rw_offset |-> 0,
             active_locty |-> TPM_TIS_NO_LOCALITY,
             aborting_locty |-> TPM_TIS_NO_LOCALITY,
             next_locty |-> TPM_TIS_NO_LOCALITY,
             cmd |-> NoCmd,
             locs |-> [l \in Localities |-> InitLocality],
             be_buffer_size |-> 0,
             be |-> InitEmulator,
             irq_num |-> IrqNum] @@ Transient
      m1 == TPMEmulator_new(m0, se)
      m2 == tpm_emulator_set_buffer_size(m1, se.stop1, se.sbs1)
      size == Min(get_buffer_size(se), TPM_TIS_BUFFER_MAX)
      m3 == [m2 EXCEPT !.be_buffer_size = size]
  IN tpm_emulator_startup_tpm(m3, size, se)

DevFields ==
  {"buffer", "rw_offset", "active_locty", "aborting_locty", "next_locty",
   "cmd", "locs", "be_buffer_size", "be", "irq_num"}

\* the device state a call leaves behind
DevOf(m) == [f \in DevFields |-> m[f]]
\* the machine a call starts from
Begin == dev @@ Transient

(***************************************************************************)
(* The state machine                                                       *)
(***************************************************************************)
DefaultEnv ==
  [est |-> "ok", est_bit |-> 1, reset |-> "ok", cancel |-> "ok",
   setloc |-> "ok", data |-> "ok", resp |-> <<>>]

\* the eight bytes the emulator answers GetCapability with: every capability
\* of tpm_backend.rs:33-46 (0x3FFF), the mask 0x201F, no capability
AllCaps == <<0, 0, 0, 0, 0, 0, 63, 255>>
CapAnswers == {AllCaps, <<0, 0, 0, 0, 0, 0, 32, 31>>, <<0, 0, 0, 0, 0, 0, 0, 0>>}

\* the answers the emulator gives during construction; a round trip that is
\* not made, or not answered, has the answer "ok", resp. AllCaps
StartupEnvs ==
  {se \in [datafd : CtrlOutcomes, cap : CtrlOutcomes, capbytes : CapAnswers,
           est : CtrlOutcomes,
           est_bit : {0, 1}, stop1 : CtrlOutcomes, sbs1 : CtrlOutcomes,
           bufsize : 0..MaxBeBufferSize, stop2 : CtrlOutcomes,
           sbs2 : CtrlOutcomes, init : CtrlOutcomes] :
     /\ (CtrlRc(se.cap) < 0 => se.capbytes = AllCaps)
     /\ (CtrlRc(se.est) < 0 => se.est_bit = 1)
     /\ (se.stop1 # "ok" => se.sbs1 = "ok")
     /\ (SetBufferSizeRc(se.stop1, se.sbs1) < 0 => se.bufsize = 0)
     /\ (get_buffer_size(se) = 0 \/ se.stop2 # "ok" => se.sbs2 = "ok")
     /\ (get_buffer_size(se) = 0 => se.stop2 = "ok")
     /\ (StartupRc(get_buffer_size(se), [se EXCEPT !.init = "ok"]) < 0
           => se.init = "ok")}

\* the start-ups the state machine begins from: the emulator answers every
\* round trip, and either accepts SetBufferSize (the buffer size is the one
\* it reports) or refuses it (the buffer size is the default 4096)
BootEnvs ==
  {se \in StartupEnvs :
     /\ se.datafd = "ok" /\ se.cap = "ok" /\ se.capbytes = AllCaps
     /\ se.est = "ok" /\ se.est_bit = 1
     /\ se.stop1 = "ok" /\ se.sbs1 \in {"ok", "err"}
     /\ se.stop2 = "ok" /\ se.sbs2 = "ok" /\ se.init = "ok"}

\* the environment's answers to the round trips one MMIO access can make
EstEnvs ==
  {[DefaultEnv EXCEPT !.est = o, !.est_bit = b] :
     o \in CtrlOutcomes, b \in {0, 1}}
ResetEnvs == {[DefaultEnv EXCEPT !.reset = o] : o \in CtrlOutcomes}
DeliverEnvs ==
  {[DefaultEnv EXCEPT !.setloc = o, !.data = d] :
     o \in CtrlOutcomes, d \in {"ok", "error"}}

\* the locality selectors (address bits [14:12]) the guest uses
Locs == 0..MaxLocSel
\* the selectors the command path is driven from: a locality the scans
\* visit and the one they leave out
CmdLocs == {3, 4}

\* the callers of the backend's channel code
NumCallers == 2
Callers == 1..NumCallers
\* the control commands the callers start, all together
MaxCtrlCmds == 3

\* nobody is inside tpm_emulator_ctrlcmd or unix_tx_bufs, the mutex of
\* tpm_backend.rs:131 is free (0), nothing was written to the control channel
CtlInit ==
  [mutex |-> 0,
   pc |-> [t \in Callers |-> "idle"],
   ctrlcmds |-> 0,
   wire |-> <<>>]

\* a call has run to its end, or has panicked
Commit(call) ==
  \E m \in {call} :
    /\ panicked' = m.panic
    /\ dev' = IF m.panic THEN dev ELSE DevOf(m)
    /\ UNCHANGED <<overflow_checks, emu, ctl>>

Init ==
  /\ \E se \in BootEnvs : emu = se /\ dev = DevOf(TPMIsa_new(se))
  /\ panicked = FALSE
  /\ overflow_checks \in BOOLEAN
  /\ ctl = CtlInit

\* the ACCESS values the guest writes: every combination of the four
\* writable flags
AccessWrites == {<<r + z + n + a>> :
                   r \in {0, 2}, z \in {0, 8}, n \in {0, 16}, a \in {0, 32}}

\* the STS values the guest writes: COMMAND_READY, TPM_GO, RESPONSE_RETRY,
\* two of them at once, COMMAND_CANCEL, RESET_ESTABLISHMENT_BIT
StsWrites == {<<64>>, <<32>>, <<2>>, <<96>>, <<0, 0, 0, 1>>, <<0, 0, 0, 2>>}

\* the FIFO accesses the guest makes: 1, 2 or 4 bytes, aligned or not
FifoOffsets == {TPM_TIS_REG_DATA_XFIFO, TPM_TIS_REG_DATA_XFIFO + 1}
FifoWrites == {<<1>>, <<0, 1>>, <<0, 0, 0, 1>>}
ReadLens == {1, 2, 4}

WriteAccess(S) ==
  /\ ~panicked
  /\ \E sel \in S, data \in AccessWrites :
       Commit(write(Begin, sel, TPM_TIS_REG_ACCESS, data, DefaultEnv))

\* the round trips an STS write can make: ResetTpmEstablished for a write of
\* RESET_ESTABLISHMENT_BIT, SetLocality and the data transfer for TPM_GO
StsEnvsFor(data) ==
  IF LittleEndianU32(data) \cap TPM_TIS_STS_RESET_ESTABLISHMENT_BIT # {}
  THEN ResetEnvs
  ELSE IF LittleEndianU32(data) = TPM_TIS_STS_TPM_GO THEN DeliverEnvs
  ELSE {DefaultEnv}

WriteSts(S) ==
  /\ ~panicked
  /\ \E sel \in S, data \in StsWrites :
       \E e \in StsEnvsFor(data) :
         Commit(write(Begin, sel, TPM_TIS_REG_STS, data, e))

WriteFifo(S) ==
  /\ ~panicked
  /\ \E sel \in S, offset \in FifoOffsets, data \in FifoWrites :
       Commit(write(Begin, sel, offset, data, DefaultEnv))

\* an ACCESS read makes the GetTpmEstablished round trip unless the flag is
\* cached
EstEnvsFor(m) ==
  IF m.be.established_flag_cached = 1 THEN {DefaultEnv} ELSE EstEnvs

ReadAccess(S) ==
  /\ ~panicked
  /\ \E sel \in S, len \in ReadLens, e \in EstEnvsFor(dev) :
       Commit(read(Begin, sel, TPM_TIS_REG_ACCESS, len, e))

ReadSts(S) ==
  /\ ~panicked
  /\ \E sel \in S, len \in ReadLens :
       Commit(read(Begin, sel, TPM_TIS_REG_STS, len, DefaultEnv))

ReadFifo(S) ==
  /\ ~panicked
  /\ \E sel \in S, offset \in FifoOffsets, len \in ReadLens :
       Commit(read(Begin, sel, offset, len, DefaultEnv))

\* locality arbitration: every selector, the ACCESS register
Next ==
  \/ WriteAccess(Locs)
  \/ ReadAccess(Locs)

Spec == Init /\ [][Next]_vars

\* the command path: two localities, the ACCESS, STS and FIFO registers
NextCmd ==
  \/ WriteAccess(CmdLocs)
  \/ WriteSts(CmdLocs)
  \/ WriteFifo(CmdLocs)
  \/ ReadAccess(CmdLocs)
  \/ ReadSts(CmdLocs)
  \/ ReadFifo(CmdLocs)

SpecCmd == Init /\ [][NextCmd]_vars

\* the selectors the interrupt registers are driven from
IntLocs == {0, 4}

\* the INT_ENABLE values the guest writes: LOCALITY_CHANGED with the global
\* enable, COMMAND_READY with the global enable, LOCALITY_CHANGED alone in
\* the low byte, nothing
IntEnableWrites == {<<4, 0, 0, 128>>, <<128, 0, 0, 128>>, <<4>>, <<0, 0, 0, 0>>}
\* the INT_STATUS values the guest writes: LOCALITY_CHANGED, COMMAND_READY,
\* every flag
IntStatusWrites == {<<4>>, <<128>>, <<255>>}
IntRegs == {TPM_TIS_REG_INT_ENABLE, TPM_TIS_REG_INT_VECTOR, TPM_TIS_REG_INT_STATUS}

WriteIntEnable(S) ==
  /\ ~panicked
  /\ \E sel \in S, data \in IntEnableWrites :
       Commit(write(Begin, sel, TPM_TIS_REG_INT_ENABLE, data, DefaultEnv))

WriteIntStatus(S) ==
  /\ ~panicked
  /\ \E sel \in S, data \in IntStatusWrites :
       Commit(write(Begin, sel, TPM_TIS_REG_INT_STATUS, data, DefaultEnv))

ReadInt(S) ==
  /\ ~panicked
  /\ \E sel \in S, offset \in IntRegs, len \in ReadLens :
       Commit(read(Begin, sel, offset, len, DefaultEnv))

\* interrupts: two localities, the ACCESS and the interrupt registers
NextInt ==
  \/ WriteAccess(IntLocs)
  \/ WriteIntEnable(IntLocs)
  \/ WriteIntStatus(IntLocs)
  \/ ReadInt(IntLocs)

SpecInt == Init /\ [][NextInt]_vars

\* the command path with its interrupts: one locality, the ACCESS, STS, FIFO
\* and interrupt registers
GoLocs == {3}
\* the INT_ENABLE values written there: DATA_AVAILABLE and STS_VALID with the
\* global enable, DATA_AVAILABLE alone with it, both without it
CmdIntEnables == {<<3, 0, 0, 128>>, <<1, 0, 0, 128>>, <<3>>}

WriteCmdIntEnable(S) ==
  /\ ~panicked
  /\ \E sel \in S, data \in CmdIntEnables :
       Commit(write(Begin, sel, TPM_TIS_REG_INT_ENABLE, data, DefaultEnv))

NextGo ==
  \/ WriteAccess(GoLocs)
  \/ WriteSts(GoLocs)
  \/ WriteFifo(GoLocs)
  \/ WriteCmdIntEnable(GoLocs)
  \/ WriteIntStatus(GoLocs)

SpecGo == Init /\ [][NextGo]_vars

\* tpm_tis_sts_set on its own.  Its inputs are the prior value of the STS
\* register, the locality and the flags.  The prior values: any of
\* SELFTEST_DONE and the two family bits, with or without COMMAND_READY.
StsValues ==
  {keep \cup x :
     keep \in SUBSET (TPM_TIS_STS_SELFTEST_DONE \cup TPM_TIS_STS_TPM_FAMILY_MASK),
     x \in {{}, TPM_TIS_STS_COMMAND_READY}}
\* the flags: no flag, three of the arguments the device passes, and a flag
\* the function keeps
StsFlags ==
  {{}, TPM_TIS_STS_VALID, TPM_TIS_STS_COMMAND_READY,
   TPM_TIS_STS_VALID \cup TPM_TIS_STS_DATA_AVAILABLE,
   TPM_TIS_STS_SELFTEST_DONE}
\* the localities it is applied to
StsLocs == {0, 4}

InitSts ==
  /\ \E se \in BootEnvs :
       /\ emu = se
       /\ \E d \in {DevOf(TPMIsa_new(se))}, prior \in StsValues :
            dev = [d EXCEPT
                     !.locs = [l \in Localities |-> [@[l] EXCEPT !.sts = prior]]]
  /\ panicked = FALSE
  /\ overflow_checks \in BOOLEAN
  /\ ctl = CtlInit

StsSet ==
  /\ ~panicked
  /\ \E locality \in StsLocs, flags \in StsFlags :
       Commit(tpm_tis_sts_set(Begin, locality, flags))

NextSts == StsSet

SpecSts == InitSts /\ [][NextSts]_vars

\* The backend session on its own, driven through the methods of TPMEmulator
\* that the device calls.
\* the descriptors handed to deliver_request: from locality 0 or 3, an empty
\* command or one of two bytes
BackendCmds ==
  {[some |-> TRUE, locty |-> l, input |-> i, input_len |-> Len(i),
    output |-> i, output_len |-> Len(i), selftest_done |-> FALSE] :
     l \in {0, 3}, i \in {<<>>, <<128, 1>>}}

\* the caller keeps its descriptor in dev.cmd, as tpm_tis_tpm_send does
Deliver ==
  /\ ~panicked
  /\ \E c \in BackendCmds, e \in DeliverEnvs :
       Commit(deliver_request([Begin EXCEPT !.cmd = c], e))

GetEstablished ==
  /\ ~panicked
  /\ \E e \in EstEnvsFor(dev) : Commit(get_tpm_established_flag(Begin, e))

ResetEstablished ==
  /\ ~panicked
  /\ \E e \in ResetEnvs : Commit(reset_tpm_established_flag(Begin, e))

CancelCmd ==
  /\ ~panicked
  /\ Commit(cancel_cmd(Begin, DefaultEnv))

NextBe ==
  \/ Deliver
  \/ GetEstablished
  \/ ResetEstablished
  \/ CancelCmd

SpecBe == Init /\ [][NextBe]_vars

\* The construction of the backend session.  The emulator's answers to
\* SetDatafd, GetCapability and GetTpmEstablished are inputs; it refuses
\* SetBufferSize and answers the other round trips of the construction.
\* Afterwards the methods that use what the construction stored are called.
NewEnvs ==
  {se \in StartupEnvs :
     /\ se.stop1 = "ok" /\ se.sbs1 = "err"
     /\ se.stop2 = "ok" /\ se.sbs2 = "ok" /\ se.init = "ok"}

\* no arithmetic of the backend can overflow: one build profile
InitNew ==
  /\ \E se \in NewEnvs : emu = se /\ dev = DevOf(TPMIsa_new(se))
  /\ panicked = FALSE
  /\ overflow_checks = FALSE
  /\ ctl = CtlInit

NextNew ==
  \/ GetEstablished
  \/ ResetEstablished
  \/ CancelCmd

SpecNew == InitNew /\ [][NextNew]_vars

\* The negotiation of the buffer size.  The emulator's answers to the Stop,
\* SetBufferSize and Init round trips of the construction are inputs; it
\* answers SetDatafd, GetCapability and GetTpmEstablished.  Afterwards the
\* methods of the session are called.
StartEnvs ==
  {se \in [datafd : {"ok"}, cap : {"ok"}, capbytes : {AllCaps}, est : {"ok"},
           est_bit : {1}, stop1 : CtrlOutcomes, sbs1 : CtrlOutcomes,
           bufsize : 0..MaxBeBufferSize, stop2 : CtrlOutcomes,
           sbs2 : CtrlOutcomes, init : CtrlOutcomes] :
     se \in StartupEnvs}

InitStart ==
  /\ \E se \in StartEnvs : emu = se /\ dev = DevOf(TPMIsa_new(se))
  /\ panicked = FALSE
  /\ overflow_checks = FALSE
  /\ ctl = CtlInit

NextStart ==
  \/ GetEstablished
  \/ ResetEstablished
  \/ CancelCmd

SpecStart == InitStart /\ [][NextStart]_vars

(***************************************************************************)
(* The channel code of the backend, tpm_backend.rs:256-302 and 339-365,    *)
(* statement by statement, entered by several callers at once.  ctl.pc[t]  *)
(* is where caller t stands: "idle" outside both functions; "locked" after *)
(* line 270; "written" after the request went out (276); "answered" after  *)
(* the response was read and decoded (288-293); "failed" inside one of the *)
(* two `if res <= 0` blocks (277, 289); "sending" between the sendmsg and   *)
(* the recvfrom of unix_tx_bufs (350-356).                                 *)
(***************************************************************************)
\* the mutex taken without waiting for its holder
MutexIgnored(c) == TRUE

\* tpm_backend.rs:270: Mutex::lock returns once no guard is alive
MutexFree(c) == c.mutex = 0

\* tpm_backend.rs:270
CtrlLock(t) ==
  /\ ctl.pc[t] = "idle"
  /\ ctl.ctrlcmds < MaxCtrlCmds
  /\ MutexFree(ctl)
  /\ ctl' = [ctl EXCEPT !.mutex = t, !.pc[t] = "locked", !.ctrlcmds = @ + 1]
  /\ UNCHANGED <<dev, panicked, overflow_checks, emu>>

\* tpm_backend.rs:276-280: chr_fe_write_all sends the request or fails
CtrlWrite(t) ==
  /\ ctl.pc[t] = "locked"
  /\ \E res \in {1, -1} :
       ctl' = IF res <= 0
              THEN [ctl EXCEPT !.pc[t] = "failed"]
              ELSE [ctl EXCEPT !.pc[t] = "written",
                               !.wire = Append(@, <<t, "request">>)]
  /\ UNCHANGED <<dev, panicked, overflow_checks, emu>>

\* tpm_backend.rs:288-293: chr_fe_read_all takes the response or fails
CtrlRead(t) ==
  /\ ctl.pc[t] = "written"
  /\ \E res \in {1, -1} :
       ctl' = IF res <= 0
              THEN [ctl EXCEPT !.pc[t] = "failed"]
              ELSE [ctl EXCEPT !.pc[t] = "answered",
                               !.wire = Append(@, <<t, "response">>)]
  /\ UNCHANGED <<dev, panicked, overflow_checks, emu>>

\* tpm_backend.rs:278, 290, 300: std::mem::drop(guard), then the return
CtrlUnlock(t) ==
  /\ ctl.pc[t] \in {"answered", "failed"}
  /\ ctl' = [ctl EXCEPT !.mutex = IF @ = t THEN 0 ELSE @, !.pc[t] = "idle"]
  /\ UNCHANGED <<dev, panicked, overflow_checks, emu>>

\* tpm_backend.rs:350: the command goes out on the data channel; the call is
\* made by handle_request after set_locality has returned (532-540)
DataSend(t) ==
  /\ ctl.pc[t] = "idle"
  /\ ctl' = [ctl EXCEPT !.pc[t] = "sending"]
  /\ UNCHANGED <<dev, panicked, overflow_checks, emu>>

\* tpm_backend.rs:351-364: sendmsg reported a count other than 0, or the
\* response was received
DataRecv(t) ==
  /\ ctl.pc[t] = "sending"
  /\ ctl' = [ctl EXCEPT !.pc[t] = "idle"]
  /\ UNCHANGED <<dev, panicked, overflow_checks, emu>>

\* one device, one build profile
InitCtl ==
  /\ \E se \in {s \in BootEnvs : s.sbs1 = "err"} :
       emu = se /\ dev = DevOf(TPMIsa_new(se))
  /\ panicked = FALSE
  /\ overflow_checks = FALSE
  /\ ctl = CtlInit

NextCtl ==
  \E t \in Callers :
    \/ CtrlLock(t)
    \/ CtrlWrite(t)
    \/ CtrlRead(t)
    \/ CtrlUnlock(t)
    \/ DataSend(t)
    \/ DataRecv(t)

SpecCtl == InitCtl /\ [][NextCtl]_vars

(***************************************************************************)
(* Properties.  A property of one register access is stated over every     *)
(* reachable device state and every access of the kind: the handler is     *)
(* applied to the state and its result examined.                           *)
(***************************************************************************)
\* the flag is set in the access byte of locality l of device state d
HasAccess(d, l, flag) == d.locs[l].access \cap flag # {}
\* the localities whose access byte has ACTIVE_LOCALITY set
ActiveSet(d) == {l \in Localities : HasAccess(d, l, TPM_TIS_ACCESS_ACTIVE_LOCALITY)}
\* the guest's write of `data` to the ACCESS register of selector sel
AccessWrite(sel, data) == write(Begin, sel, TPM_TIS_REG_ACCESS, data, DefaultEnv)

\* C1: after any sequence of ACCESS reads and writes from any locality
\* selector, at most one of the five locality records has ACTIVE_LOCALITY
\* set in its access byte.
C1_AtMostOneActive == Cardinality(ActiveSet(dev)) <= 1

\* C1 witness: a locality holds ACTIVE_LOCALITY after it took the device away
\* from another one, which is left with BEEN_SEIZED and without the flag.
C1_Witness ==
  \E a, b \in Localities :
    /\ a # b
    /\ ActiveSet(dev) = {a}
    /\ dev.active_locty = a
    /\ HasAccess(dev, b, TPM_TIS_ACCESS_BEEN_SEIZED)

\* the ACCESS values the guest writes that have SEIZE set
SeizeWrites == {data \in AccessWrites :
                  LittleEndianU32(data) \cap TPM_TIS_ACCESS_SEIZE # {}}
\* the localities of device state d whose access byte has SEIZE set
SeizeSet(d) == {l \in Localities : HasAccess(d, l, TPM_TIS_ACCESS_SEIZE)}
\* a locality is active in device state d
SomeActive(d) == d.active_locty \in Localities

\* C2: a SEIZE write to ACCESS by locality L is granted (L's seize bit is
\* set, a switch toward L is recorded, or the active locality changes) only
\* if no locality is active or L is above the active one; a SEIZE write by a
\* locality at or below the active one returns normally and changes neither
\* the active locality, nor any seize bit, nor aborting_locty, nor next_locty.
C2_SeizeOnlyByHigher ==
  \A sel \in Locs, data \in SeizeWrites :
    LET m == AccessWrite(sel, data)
        granted == \/ m.panic
                   \/ m.active_locty # dev.active_locty
                   \/ SeizeSet(m) # SeizeSet(dev)
                   \/ m.aborting_locty # dev.aborting_locty
                   \/ m.next_locty # dev.next_locty
    IN /\ (granted => (~SomeActive(dev) \/ sel > dev.active_locty))
       /\ (SomeActive(dev) /\ sel <= dev.active_locty
             => /\ ~m.panic
                /\ m.active_locty = dev.active_locty
                /\ SeizeSet(m) = SeizeSet(dev)
                /\ m.aborting_locty = dev.aborting_locty
                /\ m.next_locty = dev.next_locty)

\* C2 witness: a locality is active; a SEIZE write from a lower locality
\* leaves the device as it is, one from a higher locality takes it over.
C2_Witness ==
  \E lo, hi \in Localities :
    /\ SomeActive(dev) /\ lo < dev.active_locty /\ dev.active_locty < hi
    /\ LET m == AccessWrite(lo, <<8>>) IN ~m.panic /\ DevOf(m) = dev
    /\ LET m == AccessWrite(hi, <<8>>) IN ~m.panic /\ m.active_locty = hi

\* C3: when a SEIZE write by a locality makes it the active locality in place
\* of another one, the previously active locality has BEEN_SEIZED set and
\* both ACTIVE_LOCALITY and REQUEST_USE clear in its access byte.
C3_SeizedLocalityMarked ==
  \A sel \in Locs, data \in SeizeWrites :
    LET m == AccessWrite(sel, data)
        old == dev.active_locty
    IN (~m.panic /\ SomeActive(dev) /\ sel # old /\ m.active_locty = sel)
         => /\ HasAccess(m, old, TPM_TIS_ACCESS_BEEN_SEIZED)
            /\ ~HasAccess(m, old, TPM_TIS_ACCESS_ACTIVE_LOCALITY)
            /\ ~HasAccess(m, old, TPM_TIS_ACCESS_REQUEST_USE)

\* C3 witness: the active locality has never been seized; a SEIZE write from
\* a higher locality makes the writer active and marks the old one.
C3_Witness ==
  \E hi \in Localities :
    LET m == AccessWrite(hi, <<8>>)
        old == dev.active_locty
    IN /\ SomeActive(dev) /\ hi > old
       /\ ~HasAccess(dev, old, TPM_TIS_ACCESS_BEEN_SEIZED)
       /\ ~m.panic /\ m.active_locty = hi
       /\ ActiveSet(m) = {hi}
       /\ HasAccess(m, old, TPM_TIS_ACCESS_BEEN_SEIZED)

\* the grant condition of a seize by locality l: no locality is active or l
\* is above the active one, and no seize is pending for l or a higher one
GrantCondition(d, l) ==
  /\ ~SomeActive(d) \/ l > d.active_locty
  /\ \A h \in Localities : h >= l => ~HasAccess(d, h, TPM_TIS_ACCESS_SEIZE)
\* a command is executing in device state d
Executing(d) == \E l \in Localities : d.locs[l].state = "TpmTisStateExecution"

\* C4: a SEIZE write by any locality L in 0..4 that meets the grant condition
\* makes L the active locality, at once when no command is executing.
C4_SeizeMakesActive ==
  \A l \in Localities :
    LET m == AccessWrite(l, <<8>>)
    IN (GrantCondition(dev, l) /\ ~Executing(dev))
         => ~m.panic /\ m.active_locty = l

\* the localities of device state d that have REQUEST_USE pending
Requesters(d) == {l \in Localities : HasAccess(d, l, TPM_TIS_ACCESS_REQUEST_USE)}

\* C5: when the active locality writes ACTIVE_LOCALITY to ACCESS and some
\* locality has REQUEST_USE pending, the highest-numbered requesting locality
\* of 0..4 becomes the active locality.
C5_ReleaseHandsOver ==
  \A l \in Localities :
    LET m == AccessWrite(l, <<32>>)
    IN (dev.active_locty = l /\ Requesters(dev) # {})
         => ~m.panic /\ m.active_locty = SetMax(Requesters(dev))

\* C7: a read of the ACCESS register of locality L has PENDING_REQUEST set
\* exactly when some locality of 0..4 other than L has REQUEST_USE pending.
C7_PendingRequestBit ==
  \A l \in Localities, len \in ReadLens :
    LET m == read(Begin, l, TPM_TIS_REG_ACCESS, len, DefaultEnv)
    IN /\ ~m.panic
       /\ Len(m.data) = len
       /\ (BitsOfNum(m.data[len]) \cap TPM_TIS_ACCESS_PENDING_REQUEST # {})
            <=> (Requesters(dev) \ {l} # {})

\* a write of exactly REQUEST_USE, as a 1-, 2- or 4-byte access
RequestUseWrites == {<<2>>, <<2, 0>>, <<2, 0, 0, 0>>}
\* locality l has enabled the LOCALITY_CHANGED interrupt
LocalityChangedEnabled(d, l) ==
  /\ d.locs[l].inte \cap TPM_TIS_INT_ENABLED # {}
  /\ d.locs[l].inte \cap TPM_TIS_INT_LOCALITY_CHANGED # {}

\* C6: a REQUEST_USE write to ACCESS by locality L returns normally; when no
\* locality is active, L becomes the active locality and LOCALITY_CHANGED is
\* recorded in L's interrupt status exactly if L enabled it; when another
\* locality is active, the write sets L's REQUEST_USE bit and changes
\* nothing else of the device.
C6_RequestUse ==
  \A l \in Localities, data \in RequestUseWrites :
    LET m == AccessWrite(l, data)
    IN /\ ~m.panic
       /\ ~SomeActive(dev)
            => /\ m.active_locty = l
               /\ ActiveSet(m) = {l}
               /\ \A k \in Localities :
                    m.locs[k].ints =
                      IF k = l /\ LocalityChangedEnabled(dev, l)
                      THEN dev.locs[k].ints \cup TPM_TIS_INT_LOCALITY_CHANGED
                      ELSE dev.locs[k].ints
       /\ (SomeActive(dev) /\ dev.active_locty # l)
            => DevOf(m) = [dev EXCEPT !.locs[l].access =
                                         @ \cup TPM_TIS_ACCESS_REQUEST_USE]

\* C6 witness: no locality is active and locality l has enabled
\* LOCALITY_CHANGED, which is not pending; its REQUEST_USE write makes it
\* active and records the interrupt, and a REQUEST_USE write from another
\* locality afterwards is only recorded as pending.
C6_Witness ==
  \E l, k \in Localities :
    LET m == AccessWrite(l, <<2>>)
        m2 == write(DevOf(m) @@ Transient, k, TPM_TIS_REG_ACCESS, <<2>>, DefaultEnv)
    IN /\ l # k
       /\ ~SomeActive(dev)
       /\ LocalityChangedEnabled(dev, l)
       /\ dev.locs[l].ints = {}
       /\ ~m.panic /\ m.active_locty = l
       /\ m.locs[l].ints = TPM_TIS_INT_LOCALITY_CHANGED
       /\ ~m2.panic /\ m2.active_locty = l
       /\ HasAccess(m2, k, TPM_TIS_ACCESS_REQUEST_USE)
       /\ ~HasAccess(m, k, TPM_TIS_ACCESS_REQUEST_USE)

\* a write of exactly TPM_GO, as a 1- or 4-byte access
TpmGoWrites == {<<32>>, <<32, 0, 0, 0>>}
\* locality sel may start a command: it is the active locality, in
\* Reception, with STS.EXPECT clear
GoCondition(d, sel) ==
  /\ sel \in Localities
  /\ d.active_locty = sel
  /\ d.locs[sel].state = "TpmTisStateReception"
  /\ d.locs[sel].sts \cap TPM_TIS_STS_EXPECT = {}

\* C8: a TPM_GO write to STS builds the command descriptor from the buffer
\* and hands it to the backend once, leaving Reception, exactly when the
\* writer is the active locality, in Reception, with STS.EXPECT clear; in
\* any other situation it returns normally, hands nothing to the backend and
\* changes no device state.
C8_TpmGo ==
  \A sel \in Locs, data \in TpmGoWrites, e \in DeliverEnvs :
    LET m == write(Begin, sel, TPM_TIS_REG_STS, data, e)
    IN IF GoCondition(dev, sel)
       THEN /\ m.delivers = 1
            /\ m.cmd.some /\ m.cmd.locty = sel
            /\ m.cmd.input = dev.buffer /\ m.cmd.input_len = dev.rw_offset
            /\ ~m.panic => m.locs[sel].state \in
                             {"TpmTisStateExecution", "TpmTisStateCompletion"}
       ELSE ~m.panic /\ m.delivers = 0 /\ DevOf(m) = dev

\* C8 witness: the active locality is in Reception with EXPECT clear and has
\* sent no command yet; its TPM_GO write hands the command to the backend
\* and ends in Completion.
C8_Witness ==
  \E sel \in Localities :
    LET m == write(Begin, sel, TPM_TIS_REG_STS, <<32>>, DefaultEnv)
    IN /\ GoCondition(dev, sel)
       /\ ~dev.cmd.some
       /\ ~m.panic /\ m.delivers = 1 /\ m.cmd.some
       /\ m.locs[sel].state = "TpmTisStateCompletion"

\* the machine the next call starts from
NextCall(m) == IF m.panic THEN m ELSE DevOf(m) @@ Transient

\* a response of the emulator: a ten-byte header announcing ten bytes
Response == <<128, 1, 0, 0, 0, 10, 0, 0, 1, 1>>

\* C9: after a command has been delivered successfully, the byte the guest
\* pops from the data FIFO in Completion is the first byte of the backend's
\* response to that command.
C9_ResponseBytesRead ==
  \A sel \in CmdLocs :
    LET m == write(Begin, sel, TPM_TIS_REG_STS, <<32>>,
                   [DefaultEnv EXCEPT !.resp = Response])
        r == read(NextCall(m), sel, TPM_TIS_REG_DATA_XFIFO, 1, DefaultEnv)
    IN (GoCondition(dev, sel) /\ ~m.panic
          /\ m.locs[sel].state = "TpmTisStateCompletion")
         => ~r.panic /\ r.data = <<Response[1]>>

\* a twelve-byte command: a header whose length field says 12, and two bytes
Command == <<128, 1, 0, 0, 0, 12, 0, 0, 1, 68, 0, 0>>
AccessWidths == {1, 2, 4}
\* the bytes cut into accesses of w bytes
Chunks(bytes, w) ==
  [i \in 1..(Len(bytes) \div w) |-> SubSeq(bytes, (i - 1) * w + 1, i * w)]

\* the guest writes the chunks to the data FIFO, one access each
RECURSIVE WriteAll(_, _, _)
WriteAll(m, sel, chunks) ==
  IF chunks = <<>> THEN m
  ELSE WriteAll(write(NextCall(m), sel, TPM_TIS_REG_DATA_XFIFO, Head(chunks),
                      DefaultEnv),
                sel, Tail(chunks))

\* the guest reads n bytes from the data FIFO in accesses of w bytes
RECURSIVE ReadAll(_, _, _, _, _)
ReadAll(m, sel, w, n, acc) ==
  IF n <= 0 \/ m.panic THEN [panic |-> m.panic, bytes |-> acc]
  ELSE LET r == read(NextCall(m), sel, TPM_TIS_REG_DATA_XFIFO, w, DefaultEnv)
       IN ReadAll(r, sel, w, n - w, acc \o r.data)

\* C10: the active locality, in Ready, writes a command that fits the buffer
\* to the data FIFO in 1-, 2- or 4-byte accesses: the buffer then holds the
\* command's bytes in order; after TPM_GO and a response of the same bytes,
\* reading them in 1-, 2- or 4-byte accesses returns the same bytes in order.
C10_FifoRoundTrip ==
  \A sel \in CmdLocs, w \in AccessWidths, rw \in AccessWidths :
    LET mw == WriteAll(Begin, sel, Chunks(Command, w))
        mg == write(NextCall(mw), sel, TPM_TIS_REG_STS, <<32>>,
                    [DefaultEnv EXCEPT !.resp = Command])
        mr == ReadAll(mg, sel, rw, Len(Command), <<>>)
    IN (/\ dev.active_locty = sel
        /\ dev.locs[sel].state = "TpmTisStateReady"
        /\ Len(Command) <= dev.be_buffer_size)
         => /\ ~mw.panic
            /\ Len(mw.buffer) >= Len(Command)
            /\ SubSeq(mw.buffer, 1, Len(Command)) = Command
            /\ ~mg.panic
            /\ ~mr.panic
            /\ mr.bytes = Command

\* a byte stream whose length field (bytes 2..5, big-endian) says 10, followed
\* by two bytes that are not part of the command
Stream == <<128, 1, 0, 0, 0, 10, 0, 0, 1, 68, 7, 7>>
StreamSize == BE32(Stream, 2)

\* C11: the active locality, in Ready, writes to the data FIFO, in 1-, 2- or
\* 4-byte accesses, a stream whose bytes 2..5 encode the length V: after
\* every access the handler has returned, STS.VALID is set, the write cursor
\* is at most V, and STS.EXPECT is clear exactly when the cursor has
\* reached V.
C11_CompleteAtLength ==
  \A sel \in CmdLocs, w \in AccessWidths :
    (/\ dev.active_locty = sel
     /\ dev.locs[sel].state = "TpmTisStateReady"
     /\ Len(Stream) <= dev.be_buffer_size)
      => \A k \in 1..Len(Chunks(Stream, w)) :
           LET m == WriteAll(Begin, sel, SubSeq(Chunks(Stream, w), 1, k))
           IN /\ ~m.panic
              /\ m.rw_offset <= StreamSize
              /\ m.locs[sel].sts \cap TPM_TIS_STS_VALID # {}
              /\ (m.locs[sel].sts \cap TPM_TIS_STS_EXPECT = {})
                   <=> (m.rw_offset = StreamSize)

\* C12: for every prior STS value and every flags argument, after
\* tpm_tis_sts_set a bit is set in the locality's STS register exactly if it
\* is in flags, or it was set before and is SELFTEST_DONE or a family bit;
\* nothing else of the device changes.
C12_StsSetKeeps ==
  \A locality \in StsLocs, flags \in StsFlags :
    LET m == tpm_tis_sts_set(Begin, locality, flags)
        prior == dev.locs[locality].sts
    IN /\ ~m.panic
       /\ \A b \in Bits32 :
            b \in m.locs[locality].sts
              <=> \/ b \in flags
                  \/ /\ b \in prior
                     /\ b \in TPM_TIS_STS_SELFTEST_DONE \cup TPM_TIS_STS_TPM_FAMILY_MASK
       /\ DevOf(m) = [dev EXCEPT !.locs[locality].sts = m.locs[locality].sts]

\* C12 witness: the registers started as SELFTEST_DONE, a family bit and
\* COMMAND_READY (locality 1, which the function is never applied to, still
\* holds that value); a locality the function was applied to holds
\* SELFTEST_DONE, the family bit and VALID, and no COMMAND_READY.
C12_Witness ==
  \E locality \in StsLocs :
    /\ dev.locs[1].sts = TPM_TIS_STS_SELFTEST_DONE \cup TPM_TIS_STS_TPM_FAMILY2_0
                           \cup TPM_TIS_STS_COMMAND_READY
    /\ dev.locs[locality].sts = TPM_TIS_STS_SELFTEST_DONE \cup TPM_TIS_STS_TPM_FAMILY2_0
                                  \cup TPM_TIS_STS_VALID

\* the active locality sel of device state d takes FIFO bytes: it is in Ready
\* or in Reception
TakesBytes(d, sel) ==
  /\ sel \in Localities
  /\ d.active_locty = sel
  /\ d.locs[sel].state \in {"TpmTisStateReady", "TpmTisStateReception"}

\* C13: the buffer size is at most 4096 and the cursor rw_offset is at most
\* the buffer size, in every state reached by ACCESS, STS and FIFO reads and
\* writes; a FIFO write by the active locality, in Ready or Reception, with
\* the cursor at the buffer size returns normally, stores nothing, leaves the
\* cursor where it is and leaves STS.VALID set.
C13_CursorWithinBuffer ==
  /\ dev.be_buffer_size <= TPM_TIS_BUFFER_MAX
  /\ dev.rw_offset <= dev.be_buffer_size
  /\ \A sel \in CmdLocs, offset \in FifoOffsets, data \in FifoWrites :
       LET m == write(Begin, sel, offset, data, DefaultEnv)
       IN (TakesBytes(dev, sel) /\ dev.rw_offset >= dev.be_buffer_size)
            => /\ ~m.panic
               /\ m.rw_offset = dev.rw_offset
               /\ m.buffer = dev.buffer
               /\ TPM_TIS_STS_VALID \subseteq m.locs[sel].sts
               /\ m.locs[sel].sts \cap TPM_TIS_STS_EXPECT = {}

\* C13 witness: the active locality is in Reception, which only a FIFO write
\* leads to, with the cursor at the buffer size, VALID set and EXPECT clear:
\* the bytes of that write were dropped.
C13_Witness ==
  \E sel \in CmdLocs :
    /\ dev.active_locty = sel
    /\ dev.locs[sel].state = "TpmTisStateReception"
    /\ dev.rw_offset = dev.be_buffer_size
    /\ TPM_TIS_STS_VALID \subseteq dev.locs[sel].sts
    /\ dev.locs[sel].sts \cap TPM_TIS_STS_EXPECT = {}

\* the machine in which the caller hands descriptor c to deliver_request
Handing(c) == [Begin EXCEPT !.cmd = c]
\* what a call has sent: a control round trip, or bytes on the data channel
SentNothing(m) == Len(m.log) = 0 /\ Len(m.xfer) = 0

\* C14: deliver_request takes a descriptor (stores it and works on it: a
\* round trip, a transfer, or the panic of a failed transfer follows) only
\* when the backend's slot is empty; called while a command is outstanding
\* it returns -1, sends nothing on the control or the data channel and
\* leaves the backend, the outstanding descriptor included, as it is.
C14_BusyRejected ==
  \A c \in BackendCmds, e \in DeliverEnvs :
    LET m == deliver_request(Handing(c), e)
    IN IF dev.be.cmd.some
       THEN /\ ~m.panic
            /\ DeliverRc(Handing(c), e) = -1
            /\ SentNothing(m)
            /\ m.be = dev.be
       ELSE m.panic \/ ~SentNothing(m)

\* C14 witness: a command of one locality is outstanding in the backend
\* while the caller's descriptor, handed over later, is of another locality:
\* the second deliver_request was refused and the first descriptor kept.
C14_Witness ==
  /\ dev.be.cmd.some /\ dev.cmd.some
  /\ dev.be.cmd.locty # dev.cmd.locty
  /\ DeliverRc(Handing(dev.cmd), DefaultEnv) = -1

\* C15: a deliver_request made with the slot empty has left the slot empty
\* when it returns, whether the exchange succeeded or set-locality or the
\* transfer failed, and the deliver_request after it is taken again.
C15_SlotFreedOnReturn ==
  \A c \in BackendCmds, e \in DeliverEnvs :
    LET m == deliver_request(Handing(c), e)
    IN (~dev.be.cmd.some /\ ~m.panic)
         => /\ ~m.be.cmd.some
            /\ \A c2 \in BackendCmds :
                 LET m2 == deliver_request([NextCall(m) EXCEPT !.cmd = c2], DefaultEnv)
                 IN m2.panic \/ ~SentNothing(m2)

\* the control round trips of command cmd a call has started, for a call
\* that makes at most one round trip
RoundTrips(m, cmd) ==
  IF Len(m.log) = 0 THEN 0
  ELSE IF m.log[2] = <<"write", cmd>> THEN 1 ELSE 0

\* C16: a deliver_request made with the slot empty starts one SetLocality
\* round trip if the descriptor's locality differs from the cached one and
\* none if it is the same; afterwards the cached locality is the
\* descriptor's if the round trip was made and answered with result 0, and
\* is unchanged otherwise; a second command of the same locality, delivered
\* after the first was completed, starts no round trip.
C16_SetLocalityCached ==
  \A c \in BackendCmds, e \in DeliverEnvs :
    LET m == deliver_request(Handing(c), e)
        cur == dev.be.cur_locty_number
    IN ~dev.be.cmd.some
         => /\ Len(m.log) <= 4
            /\ RoundTrips(m, "CmdSetLocality") = IF c.locty # cur THEN 1 ELSE 0
            /\ m.be.cur_locty_number =
                 IF c.locty # cur /\ e.setloc = "ok" THEN c.locty ELSE cur
            /\ (~m.panic /\ ~m.be.cmd.some)
                 => \A e2 \in DeliverEnvs :
                      Len(deliver_request([NextCall(m) EXCEPT !.cmd = c], e2).log) = 0

\* C16 witness: a command has been completed and the cached locality is its
\* locality; delivering it again makes the transfer without a control round
\* trip, delivering a command of another locality starts SetLocality.
C16_Witness ==
  /\ dev.cmd.some /\ ~dev.be.cmd.some
  /\ dev.be.cur_locty_number = dev.cmd.locty
  /\ LET m == deliver_request(Handing(dev.cmd), DefaultEnv)
     IN ~m.panic /\ Len(m.log) = 0 /\ Len(m.xfer) = 1
  /\ \E c \in BackendCmds :
       /\ c.locty # dev.cmd.locty
       /\ RoundTrips(deliver_request(Handing(c), DefaultEnv), "CmdSetLocality") = 1

\* the established flag is cached in device state d
Cached(d) == d.be.established_flag_cached = 1

\* C17: while the established flag is cached, get_tpm_established_flag makes
\* no control round trip, changes nothing and returns the cached value
\* whatever the emulator would answer; with nothing cached it makes one
\* GetTpmEstablished round trip, and caches the answered bit exactly if the
\* round trip did not fail, after which the next call is answered from the
\* cache with the same value; deliver_request, cancel_cmd and a
\* reset_tpm_established_flag that does not succeed leave the cache as it is.
C17_EstablishedCached ==
  /\ \A e \in EstEnvs :
       LET m == get_tpm_established_flag(Begin, e)
           ret == EstablishedRet(Begin, e)
       IN /\ ~m.panic
          /\ Cached(dev)
               => /\ Len(m.log) = 0
                  /\ DevOf(m) = dev
                  /\ ret = (dev.be.established_flag = 1)
          /\ (~Cached(dev) /\ CtrlRc(e.est) < 0)
               => /\ RoundTrips(m, "CmdGetTpmEstablished") = 1
                  /\ DevOf(m) = dev
                  /\ ret = FALSE
          /\ (~Cached(dev) /\ CtrlRc(e.est) = 0)
               => /\ RoundTrips(m, "CmdGetTpmEstablished") = 1
                  /\ Cached(m)
                  /\ ret = (e.est_bit # 0)
                  /\ \A e2 \in EstEnvs :
                       /\ Len(get_tpm_established_flag(NextCall(m), e2).log) = 0
                       /\ EstablishedRet(NextCall(m), e2) = ret
  /\ \A c \in BackendCmds, e \in DeliverEnvs :
       LET m == deliver_request(Handing(c), e)
       IN /\ m.be.established_flag_cached = dev.be.established_flag_cached
          /\ m.be.established_flag = dev.be.established_flag
  /\ LET m == cancel_cmd(Begin, DefaultEnv)
     IN /\ m.be.established_flag_cached = dev.be.established_flag_cached
        /\ m.be.established_flag = dev.be.established_flag
  /\ \A e \in ResetEnvs :
       LET m == reset_tpm_established_flag(Begin, e)
       IN /\ m.be.established_flag = dev.be.established_flag
          /\ e.reset # "ok"
               => m.be.established_flag_cached = dev.be.established_flag_cached

\* C17 witness: the flag is cached with the value 0, and a call made while
\* the emulator would answer 1 returns false without a round trip.
C17_Witness ==
  /\ Cached(dev)
  /\ dev.be.established_flag = 0
  /\ LET e == [DefaultEnv EXCEPT !.est = "ok", !.est_bit = 1]
     IN /\ Len(get_tpm_established_flag(Begin, e).log) = 0
        /\ EstablishedRet(Begin, e) = FALSE

\* the versions of a backend other than TPM 2.0
Non2_0 == {"TpmVersionUnspec", "TpmVersionOneTwo"}

\* C18: reset_tpm_established_flag makes one ResetTpmEstablished round trip;
\* if it is answered with result 0 the call returns 0 and the cache is
\* invalidated, so that the next get_tpm_established_flag asks the emulator;
\* if the round trip fails or is answered with another result the call
\* returns -1 and the backend is unchanged; for a backend that is not a TPM
\* 2.0 the call returns 0 without a round trip and changes nothing.
C18_ResetInvalidates ==
  \A e \in ResetEnvs :
    LET m == reset_tpm_established_flag(Begin, e)
        rc == ResetEstablishedRc(Begin, e)
    IN /\ ~m.panic
       /\ RoundTrips(m, "CmdResetTpmEstablished") = 1
       /\ e.reset = "ok"
            => /\ rc = 0
               /\ ~Cached(m)
               /\ DevOf(m) = [dev EXCEPT !.be.established_flag_cached = 0]
               /\ \A e2 \in EstEnvs :
                    RoundTrips(get_tpm_established_flag(NextCall(m), e2),
                               "CmdGetTpmEstablished") = 1
       /\ e.reset # "ok" => rc = -1 /\ DevOf(m) = dev
       /\ \A v \in Non2_0 :
            LET old == [Begin EXCEPT !.be.version = v]
                mo == reset_tpm_established_flag(old, e)
            IN /\ ResetEstablishedRc(old, e) = 0
               /\ Len(mo.log) = 0
               /\ mo = old

\* C18 witness: nothing is cached, which after a construction that cached
\* the flag only a successful reset leads to, and the next get_tpm_established_flag asks the emulator; a reset answered
\* with a non-zero result in the state where the flag is cached again
\* leaves it cached.
C18_Witness ==
  /\ ~Cached(dev)
  /\ LET e == [DefaultEnv EXCEPT !.est = "ok", !.est_bit = 0]
         m == get_tpm_established_flag(Begin, e)
         r == reset_tpm_established_flag(NextCall(m),
                                         [DefaultEnv EXCEPT !.reset = "err"])
     IN /\ RoundTrips(m, "CmdGetTpmEstablished") = 1
        /\ Cached(m)
        /\ Cached(r)

\* C19: after the construction, if the GetCapability round trip returned,
\* the capability mask of the backend is the big-endian decoding of the
\* eight bytes the emulator answered, and the capability check made on the
\* backend passes exactly if that decoding holds every required capability.
C19_CapsDecoded ==
  CtrlRc(emu.cap) = 0
    => /\ dev.be.caps = PtmCap_convert_to_ptm(emu.capbytes)
       /\ (tpm_emulator_check_caps(Begin) = 0)
            <=> RequiredCaps2_0 \subseteq PtmCap_convert_to_ptm(emu.capbytes)

\* C20: after the construction had_startup_error is true exactly if the
\* SetDatafd round trip failed, the GetCapability round trip failed or
\* its answer lacks a required capability, or the GetTpmEstablished round
\* trip failed.
C20_StartupError ==
  dev.be.had_startup_error
    <=> \/ CtrlRc(emu.datafd) < 0
        \/ CtrlRc(emu.cap) < 0
        \/ ~(RequiredCaps2_0 \subseteq PtmCap_convert_to_ptm(emu.capbytes))
        \/ CtrlRc(emu.est) < 0

\* the capability mask the emulator advertised while the backend was built
Negotiated ==
  IF CtrlRc(emu.cap) = 0 THEN PtmCap_convert_to_ptm(emu.capbytes) ELSE {}

\* C21: cancel_cmd makes one CancelTpmCmd round trip if the capability mask
\* negotiated with the emulator holds the cancel capability and none if it
\* does not, and in both cases leaves the backend, its outstanding command
\* included, as it was.
C21_CancelWhenCapable ==
  \A o \in CtrlOutcomes :
    LET m == cancel_cmd(Begin, [DefaultEnv EXCEPT !.cancel = o])
    IN /\ ~m.panic
       /\ DevOf(m) = dev
       /\ RoundTrips(m, "CmdCancelTpmCmd") =
            IF PTM_CAP_CANCEL_TPM_CMD \subseteq Negotiated THEN 1 ELSE 0

\* caller t holds the control-channel mutex
Holds(t) == ctl.mutex = t

\* C22: a caller that is between taking the lock and dropping the guard in
\* tpm_emulator_ctrlcmd holds the mutex, whether its write or its read
\* succeeded or failed; a caller outside tpm_emulator_ctrlcmd, and so one
\* whose data transfer is in progress, does not hold it; while a caller's
\* request is out and its response not yet read, the request is the last
\* thing on the control channel, and every response on the channel comes
\* directly after the request of the same caller.
C22_MutexAroundRoundTrip ==
  /\ \A t \in Callers :
       /\ ctl.pc[t] \in {"locked", "written", "answered", "failed"} => Holds(t)
       /\ ctl.pc[t] \in {"idle", "sending"} => ~Holds(t)
       /\ ctl.pc[t] = "written"
            => ctl.wire[Len(ctl.wire)] = <<t, "request">>
  /\ \A i \in 1..Len(ctl.wire) :
       ctl.wire[i][2] = "response"
         => i > 1 /\ ctl.wire[i - 1] = <<ctl.wire[i][1], "request">>

\* C22 witness: one caller has completed a round trip and has a data
\* transfer in progress while another has its request out and holds the
\* mutex; a third control command has failed before anything was written.
C22_Witness ==
  \E t, u \in Callers :
    /\ t # u
    /\ ctl.pc[t] = "sending"
    /\ ctl.pc[u] = "written" /\ Holds(u)
    /\ ctl.ctrlcmds = 3
    /\ ctl.wire = <<<<t, "request">>, <<t, "response">>, <<u, "request">>>>

\* a self-test command (ordinal 0x53 at offset 6) and a response whose error
\* code (bytes 6..10) is zero
SelftestCommand == <<128, 1, 0, 0, 0, 10, 0, 0, 0, 83>>
SuccessResponse == <<128, 1, 0, 0, 0, 10, 0, 0, 0, 0>>

C24_HigherSeizeBlocks ==
  \A sel \in CmdLocs, data \in SeizeWrites :
    LET m == AccessWrite(sel, data)
    IN (\E h \in Localities : h > sel /\ HasAccess(dev, h, TPM_TIS_ACCESS_SEIZE))
         => /\ ~m.panic
            /\ SeizeSet(m) \subseteq SeizeSet(dev)
            /\ m.active_locty = dev.active_locty
            /\ m.aborting_locty = dev.aborting_locty
            /\ m.next_locty = dev.next_locty

\* C25: after a SEIZE write by locality L that is granted, no locality below
\* L has its seize bit set, and L has its seize bit set unless it has become
\* the active locality.
C25_LowerSeizeCancelled ==
  \A sel \in CmdLocs, data \in SeizeWrites :
    LET m == AccessWrite(sel, data)
    IN (SeizeAllowed(Begin, sel) /\ SeizeGranted(Begin, sel))
         => /\ ~m.panic
            /\ \A l \in Localities :
                 l < sel => ~HasAccess(m, l, TPM_TIS_ACCESS_SEIZE)
            /\ m.active_locty # sel => HasAccess(m, sel, TPM_TIS_ACCESS_SEIZE)

\* the guest's write of TPM_GO to the STS register of selector sel
GoWrite(old, sel, e) == write(old, sel, TPM_TIS_REG_STS, <<32>>, e)
\* what deliver_request returns for the descriptor that write m built
Delivered(m, e) == DeliverRc([Begin EXCEPT !.cmd = m.cmd], e)
\* locality l of device state d has enabled the interrupts of mask
IntEnabled(d, l, mask) ==
  TPM_TIS_INT_ENABLED \subseteq d.locs[l].inte /\ mask \subseteq d.locs[l].inte
\* the two interrupts of a completion
CompletionInts == TPM_TIS_INT_DATA_AVAILABLE \cup TPM_TIS_INT_STS_VALID

\* C26: a TPM_GO write by the active locality L, in Reception with EXPECT
\* clear, that returns.  If the backend reported success, L is in Completion,
\* its STS is VALID|DATA_AVAILABLE plus the self-test and family bits it had,
\* and the DATA_AVAILABLE and STS_VALID interrupts are recorded for L if L
\* enabled them (none is recorded without the global enable); no switch is
\* pending at that point, and had one toward another locality been pending
\* it would have been carried out in the same call.  If the backend reported
\* failure, L is in Execution and the registers of every locality, the
\* active locality, the cursor and the buffer are as before.
C26_Completion ==
  \A sel \in GoLocs, e \in DeliverEnvs :
    LET m == GoWrite(Begin, sel, e)
        pend == GoWrite([Begin EXCEPT !.aborting_locty = sel, !.next_locty = 4],
                        sel, e)
    IN (GoCondition(dev, sel) /\ ~m.panic)
         => IF Delivered(m, e) = 0
            THEN /\ m.locs[sel].state = "TpmTisStateCompletion"
                 /\ m.locs[sel].sts =
                      (dev.locs[sel].sts
                         \cap (TPM_TIS_STS_SELFTEST_DONE \cup TPM_TIS_STS_TPM_FAMILY_MASK))
                      \cup TPM_TIS_STS_VALID \cup TPM_TIS_STS_DATA_AVAILABLE
                 /\ IntEnabled(dev, sel, CompletionInts)
                      => CompletionInts \subseteq m.locs[sel].ints
                 /\ ~(TPM_TIS_INT_ENABLED \subseteq dev.locs[sel].inte)
                      => m.locs[sel].ints = dev.locs[sel].ints
                 /\ dev.next_locty = TPM_TIS_NO_LOCALITY
                 /\ m.next_locty = TPM_TIS_NO_LOCALITY
                 /\ m.active_locty = sel
                 /\ ~pend.panic
                 /\ pend.locs[sel].state = "TpmTisStateCompletion"
                 /\ pend.active_locty = 4
                 /\ pend.next_locty = TPM_TIS_NO_LOCALITY
                 /\ pend.aborting_locty = TPM_TIS_NO_LOCALITY
                 /\ pend.rw_offset = 0
            ELSE /\ m.locs = [dev.locs EXCEPT ![sel].state = "TpmTisStateExecution"]
                 /\ m.active_locty = dev.active_locty
                 /\ m.next_locty = dev.next_locty
                 /\ m.aborting_locty = dev.aborting_locty
                 /\ m.rw_offset = dev.rw_offset
                 /\ m.buffer = dev.buffer

\* C26 witness: locality 3 is in Completion with VALID|DATA_AVAILABLE and
\* both completion interrupts recorded: its command was delivered after it
\* had enabled them.
C26_Witness ==
  /\ dev.locs[3].state = "TpmTisStateCompletion"
  /\ TPM_TIS_STS_VALID \cup TPM_TIS_STS_DATA_AVAILABLE \subseteq dev.locs[3].sts
  /\ IntEnabled(dev, 3, CompletionInts)
  /\ CompletionInts \subseteq dev.locs[3].ints
  /\ dev.cmd.some /\ ~dev.be.cmd.some

\* the state of every locality of device state d
States(d) == [l \in Localities |-> d.locs[l].state]

\* C27: a granted SEIZE write by locality L calls prep_abort toward L.  While
\* a command is executing it records the active locality as the aborting
\* and L as the next one and leaves the cursor, the active locality, the
\* state of every locality and the descriptors as they are; otherwise the
\* abort runs at once: the cursor is 0, L is the active locality and both
\* pending fields are the no-locality sentinel.  A COMMAND_READY write by the
\* active locality in Reception, no command executing, aborts toward itself:
\* the locality is in Ready with COMMAND_READY set.
C27_PrepAbort ==
  /\ \A sel \in CmdLocs :
       LET m == AccessWrite(sel, <<8>>)
       IN (SeizeAllowed(Begin, sel) /\ SeizeGranted(Begin, sel))
            => /\ ~m.panic
               /\ IF Executing(dev)
                  THEN /\ m.aborting_locty = dev.active_locty
                       /\ m.next_locty = sel
                       /\ m.rw_offset = dev.rw_offset
                       /\ m.active_locty = dev.active_locty
                       /\ States(m) = States(dev)
                       /\ m.cmd = dev.cmd /\ m.be.cmd = dev.be.cmd
                  ELSE /\ m.rw_offset = 0
                       /\ m.active_locty = sel
                       /\ m.next_locty = TPM_TIS_NO_LOCALITY
                       /\ m.aborting_locty = TPM_TIS_NO_LOCALITY
  /\ \A sel \in CmdLocs :
       LET m == write(Begin, sel, TPM_TIS_REG_STS, <<64>>, DefaultEnv)
       IN (/\ dev.active_locty = sel
           /\ dev.locs[sel].state = "TpmTisStateReception"
           /\ ~Executing(dev))
            => /\ ~m.panic
               /\ m.rw_offset = 0
               /\ m.locs[sel].state = "TpmTisStateReady"
               /\ TPM_TIS_STS_COMMAND_READY \subseteq m.locs[sel].sts
               /\ m.active_locty = sel
               /\ m.next_locty = TPM_TIS_NO_LOCALITY
               /\ m.aborting_locty = TPM_TIS_NO_LOCALITY

\* C28: while an earlier command is outstanding in the backend's slot, a
\* TPM_GO write builds no descriptor and hands nothing to the backend.
C28_NoSendWhileOutstanding ==
  \A sel \in CmdLocs, e \in DeliverEnvs :
    LET m == GoWrite(Begin, sel, e)
    IN dev.be.cmd.some => (m.delivers = 0 /\ m.cmd = dev.cmd)

\* C29: a FIFO write changes the buffer or the cursor, or gets as far as
\* storing a byte (the store into the empty buffer panics), only if the
\* writer is the active locality and is in Ready or Reception; a FIFO write
\* by a locality that is not the active one, or that is Idle, in Execution or
\* in Completion, returns normally and leaves the whole device, so the
\* buffer, the cursor, the states and the STS registers, unchanged.
C29_FifoWriteDropped ==
  \A sel \in CmdLocs, offset \in FifoOffsets, data \in FifoWrites :
    LET m == write(Begin, sel, offset, data, DefaultEnv)
    IN /\ (m.panic \/ m.buffer # dev.buffer \/ m.rw_offset # dev.rw_offset)
            => TakesBytes(dev, sel)
       /\ ~TakesBytes(dev, sel) => (~m.panic /\ DevOf(m) = dev)
       /\ (dev.active_locty = sel /\ dev.locs[sel].state = "TpmTisStateReady"
             /\ ~m.panic)
            => m.locs[sel].state = "TpmTisStateReception"

\* C29 witness: the active locality is in Completion, its command delivered,
\* and a FIFO write leaves the device as it is; it got there through
\* Reception, the state a FIFO write in Ready leads to.
C29_Witness ==
  \E sel \in CmdLocs :
    /\ dev.active_locty = sel
    /\ dev.locs[sel].state = "TpmTisStateCompletion"
    /\ dev.cmd.some /\ dev.cmd.locty = sel
    /\ LET m == write(Begin, sel, TPM_TIS_REG_DATA_XFIFO, <<0, 0, 0, 1>>, DefaultEnv)
       IN ~m.panic /\ DevOf(m) = dev

\* the device as it is when the active locality has left Ready on its first
\* FIFO write (tpm_tis.rs:689-692) and n bytes of a ten-byte command have been
\* stored (tpm_tis.rs:699-704) in a buffer that holds them; the buffer the
\* device builds is empty (tpm_tis.rs:230)
Received(sel, n) ==
  tpm_tis_sts_set(
    [Begin EXCEPT !.locs[sel].state = "TpmTisStateReception",
                  !.buffer = SelftestCommand, !.rw_offset = n,
                  !.be_buffer_size = Len(SelftestCommand)],
    sel, TPM_TIS_STS_EXPECT \cup TPM_TIS_STS_VALID)

IrqMasks ==
  {TPM_TIS_INT_LOCALITY_CHANGED, TPM_TIS_INT_COMMAND_READY, TPM_TIS_INT_STS_VALID,
   TPM_TIS_INT_DATA_AVAILABLE \cup TPM_TIS_INT_STS_VALID}

\* C31: tpm_tis_raise_irq for a locality 0..4 whose INT_ENABLE holds the
\* global enable bit and a bit of the mask ORs the mask into that locality's
\* INT_STATUS and triggers the interrupt line once; for a locality above 4,
\* or when the enable condition fails, the device and the line are unchanged.
C31_RaiseIrq ==
  \A locty \in 0..7, irqmask \in IrqMasks :
    LET m == tpm_tis_raise_irq(Begin, locty, irqmask)
        enabled == /\ locty \in Localities
                   /\ dev.locs[locty].inte \cap TPM_TIS_INT_ENABLED # {}
                   /\ dev.locs[locty].inte \cap irqmask # {}
    IN /\ ~m.panic
       /\ enabled =>
            /\ m.locs = [dev.locs EXCEPT ![locty].ints = @ \cup irqmask]
            /\ m.irq = 1
       /\ ~enabled => (DevOf(m) = dev /\ m.irq = 0)

\* C32: an INT_STATUS write of v by the active locality removes from its
\* INT_STATUS the bits of v that are supported interrupts and no other bit,
\* changes nothing else of the device, and injects no interrupt: the line is
\* lowered when INT_STATUS becomes empty and is not touched otherwise, and
\* the only operation the device has on the line, trigger_interrupt, asserts
\* it.
C32_IntStatusClear ==
  \A sel \in IntLocs, data \in IntStatusWrites :
    dev.active_locty = sel
      => LET m == write(Begin, sel, TPM_TIS_REG_INT_STATUS, data, DefaultEnv)
             v == LittleEndianU32(data) \cap TPM_TIS_INTERRUPTS_SUPPORTED
         IN /\ ~m.panic
            /\ m.locs = [dev.locs EXCEPT ![sel].ints = @ \ v]
            /\ DevOf(m) = [dev EXCEPT !.locs = m.locs]
            /\ m.irq = 0

\* offsets no arm of the two matches names (tpm_tis.rs:494-737, 764-832):
\* between ACCESS and INT_ENABLE, aligned and not, between INTERFACE_ID and
\* the FIFO, and past RID
BadOffsets == {4, 5, 64, 3848}
\* every offset the matches name, the FIFO at its first address
MappedOffsets ==
  {TPM_TIS_REG_ACCESS, TPM_TIS_REG_INT_ENABLE, TPM_TIS_REG_INT_VECTOR,
   TPM_TIS_REG_INT_STATUS, TPM_TIS_REG_INTF_CAPABILITY, TPM_TIS_REG_STS,
   TPM_TIS_REG_DATA_FIFO, TPM_TIS_REG_DATA_XFIFO, TPM_TIS_REG_INTERFACE_ID,
   TPM_TIS_REG_DID_VID, TPM_TIS_REG_RID}
\* the data of an access of eight bytes
WideWrite == <<64, 0, 0, 0, 0, 0, 0, 0>>

\* the registers, the buffer, the cursor and the locality states of m are
\* those of the current state (the backend's cache set aside)
RegistersKept(m) == [DevOf(m) EXCEPT !.be = dev.be] = dev

\* C33: a write to an offset outside the register map returns BadWriteOffset,
\* a read of such an offset returns all-ones in every byte, and neither they
\* nor a read or write of more than four bytes, at any offset, change a
\* register, the buffer, the cursor or a locality's state.
C33_ProtocolViolation ==
  \A sel \in GoLocs :
    /\ \A offset \in BadOffsets :
         /\ \A data \in FifoWrites :
              LET m == write(Begin, sel, offset, data, DefaultEnv)
              IN ~m.panic /\ RegistersKept(m) /\ m.err = "BadWriteOffset"
         /\ \A len \in ReadLens :
              LET m == read(Begin, sel, offset, len, DefaultEnv)
              IN ~m.panic /\ RegistersKept(m) /\ m.data = [i \in 1..len |-> 255]
    /\ \A offset \in BadOffsets \cup MappedOffsets :
         /\ LET m == write(Begin, sel, offset, WideWrite, DefaultEnv)
            IN ~m.panic /\ RegistersKept(m)
         /\ LET m == read(Begin, sel, offset, Len(WideWrite), DefaultEnv)
            IN ~m.panic /\ RegistersKept(m)

\* the session of the current state with no start-up error recorded, as
\* TPMEmulator::new creates it (tpm_backend.rs:123)
Unmarked == [Begin EXCEPT !.be.had_startup_error = FALSE]

Sent(log) ==
  LET w == SelectSeq(log, LAMBDA x : x[1] = "write")
  IN [i \in 1..Len(w) |-> w[i][2]]

\* the round trips the construction makes after SetDatafd, GetCapability and
\* GetTpmEstablished (tpm_backend.rs:136-149): those of get_buffer_size and
\* startup_tpm (tpm_tis.rs:195-197)
Negotiation(se) ==
  LET w == Sent(TPMIsa_new(se).log) IN SubSeq(w, 4, Len(w))

\* the emulator's answer to the i-th round trip of n: the k-th Stop is
\* answered by stop<k>, the k-th SetBufferSize by sbs<k>
AnswerTo(n, i, se) ==
  LET k == Cardinality({j \in 1..i : n[j] = n[i]})
  IN CASE n[i] = "CmdStop" -> IF k = 1 THEN se.stop1 ELSE se.stop2
       [] n[i] = "CmdSetBufferSize" -> IF k = 1 THEN se.sbs1 ELSE se.sbs2
       [] OTHER -> se.init

\* C35: in the construction every SetBufferSize follows at once a Stop that
\* was answered with result 0 and every Init follows at once a SetBufferSize
\* that was answered with result 0; startup_tpm, called with a buffer size
\* other than 0, sends Stop, SetBufferSize, Init in this order, stops at the
\* first round trip that fails or is answered with a non-zero result, and
\* returns 0 only if all three were answered with result 0.
C35_StopSetInit ==
  /\ LET n == Negotiation(emu)
     IN \A i \in 1..Len(n) :
          /\ n[i] \in {"CmdStop", "CmdSetBufferSize", "CmdInit"}
          /\ n[i] = "CmdSetBufferSize"
               => (i > 1 /\ n[i - 1] = "CmdStop" /\ AnswerTo(n, i - 1, emu) = "ok")
          /\ n[i] = "CmdInit"
               => (i > 1 /\ n[i - 1] = "CmdSetBufferSize"
                     /\ AnswerTo(n, i - 1, emu) = "ok" /\ i = Len(n))
  /\ \A se \in StartEnvs :
       LET w == Sent(tpm_emulator_startup_tpm(Begin, TPM_TIS_BUFFER_MAX, se).log)
           all == <<"CmdStop", "CmdSetBufferSize", "CmdInit">>
           outs == <<se.stop2, se.sbs2, se.init>>
       IN /\ Len(w) \in 1..3 /\ w = SubSeq(all, 1, Len(w))
          /\ \A i \in 1..3 : outs[i] # "ok" /\ i <= Len(w) => Len(w) = i
          /\ \A i \in 1..Len(w) - 1 : outs[i] = "ok"
          /\ StartupRc(TPM_TIS_BUFFER_MAX, se) = 0
               <=> (Len(w) = 3 /\ \A i \in 1..3 : outs[i] = "ok")
          /\ (\E i \in 1..Len(w) : outs[i] # "ok")
               => StartupRc(TPM_TIS_BUFFER_MAX, se) < 0

\* C35 witness: a construction in which get_buffer_size fell back to the
\* default size and startup_tpm then made all three round trips, and one in
\* which its SetBufferSize was answered with a non-zero result and no Init
\* followed; the session has been used since (its established flag was reset)
C35_Witness ==
  /\ emu.stop1 = "ok" /\ emu.sbs1 = "err"
  /\ emu.stop2 = "ok" /\ emu.sbs2 = "ok" /\ emu.init = "ok"
  /\ Negotiation(emu) = <<"CmdStop", "CmdSetBufferSize", "CmdStop",
                          "CmdSetBufferSize", "CmdInit">>
  /\ \E se \in StartEnvs :
       /\ se.stop2 = "ok" /\ se.sbs2 = "err"
       /\ Sent(tpm_emulator_startup_tpm(Begin, TPM_TIS_BUFFER_MAX, se).log)
            = <<"CmdStop", "CmdSetBufferSize">>
  /\ dev.be.established_flag_cached = 0

\* C36: locality L has ACTIVE_LOCALITY in its ACCESS register exactly if
\* active_locty is L, for every locality 0..4; with active_locty the
\* no-locality value no register has the flag.
C36_ActiveAgree ==
  /\ \A l \in Localities :
       (dev.active_locty = l)
         <=> (dev.locs[l].access \cap TPM_TIS_ACCESS_ACTIVE_LOCALITY # {})
  /\ dev.active_locty = TPM_TIS_NO_LOCALITY
       => \A l \in Localities :
            dev.locs[l].access \cap TPM_TIS_ACCESS_ACTIVE_LOCALITY = {}

\* C36 witness: locality 4 is active and flagged after it seized the TPM
\* from locality 0, which lost the flag
C36_Witness ==
  /\ dev.active_locty = 4
  /\ dev.locs[4].access \cap TPM_TIS_ACCESS_ACTIVE_LOCALITY # {}
  /\ dev.locs[0].access \cap TPM_TIS_ACCESS_BEEN_SEIZED # {}
  /\ dev.locs[0].access \cap TPM_TIS_ACCESS_ACTIVE_LOCALITY = {}

\* C37: in every state between two MMIO operations, next_locty is a locality
\* only if some locality is in Execution, and with no locality in Execution
\* aborting_locty and next_locty are both the no-locality value.
C37_PendingOnlyWhileExecuting ==
  /\ dev.next_locty \in Localities => Executing(dev)
  /\ ~Executing(dev)
       => (dev.aborting_locty = TPM_TIS_NO_LOCALITY
           /\ dev.next_locty = TPM_TIS_NO_LOCALITY)

\* C37 witness: a switch to locality 4 is pending while the command of
\* locality 3, the active one, is executing
C37_Witness ==
  /\ dev.next_locty = 4 /\ dev.aborting_locty = 3 /\ dev.active_locty = 3
  /\ dev.locs[3].state = "TpmTisStateExecution"

\* the call returned, left the device as it was and called neither the
\* backend nor the interrupt line
Untouched(m) ==
  ~m.panic /\ DevOf(m) = dev /\ SentNothing(m) /\ m.delivers = 0 /\ m.irq = 0

AllOnes(len) == [i \in 1..len |-> 255]

\* what C38 says of every access but the bytes a FIFO read returns: a write
\* to STS, INT_ENABLE or INT_STATUS and a read of the FIFO or of STS through
\* selector sel change nothing, and the STS read returns all-ones
NonActiveIgnored(sel) ==
  /\ \A data \in StsWrites, e \in DeliverEnvs \cup ResetEnvs :
       Untouched(write(Begin, sel, TPM_TIS_REG_STS, data, e))
  /\ \A data \in CmdIntEnables \cup IntEnableWrites :
       Untouched(write(Begin, sel, TPM_TIS_REG_INT_ENABLE, data, DefaultEnv))
  /\ \A data \in IntStatusWrites :
       Untouched(write(Begin, sel, TPM_TIS_REG_INT_STATUS, data, DefaultEnv))
  /\ \A len \in ReadLens :
       /\ \A offset \in FifoOffsets :
            Untouched(read(Begin, sel, offset, len, DefaultEnv))
       /\ LET m == read(Begin, sel, TPM_TIS_REG_STS, len, DefaultEnv)
          IN Untouched(m) /\ m.data = AllOnes(len)

\* C38 as stated: for a locality that is not the active one the accesses are
\* ignored and a FIFO read returns all-ones in every byte, at every FIFO
\* address and for every width.
C38_NonActiveAllOnes ==
  \A sel \in CmdLocs :
    dev.active_locty # sel
      => /\ NonActiveIgnored(sel)
         /\ \A offset \in FifoOffsets, len \in ReadLens :
              read(Begin, sel, offset, len, DefaultEnv).data = AllOnes(len)

\* C38 amended: for a locality that is not the active one the accesses are
\* ignored and a FIFO read that stays within one 4-byte word returns
\* all-ones; a read that runs past the word returns 0xffffffff shifted right
\* by 8 * (address mod 4), zero in as many bytes as it runs past the word.
C38_NonActiveIgnored ==
  \A sel \in CmdLocs :
    dev.active_locty # sel
      => /\ NonActiveIgnored(sel)
         /\ \A offset \in FifoOffsets, len \in ReadLens :
              LET m == read(Begin, sel, offset, len, DefaultEnv)
                  inside == 4 - (offset % 4)
              IN m.data = [i \in 1..len |-> IF len - i < inside THEN 255 ELSE 0]

\* C38 witness: locality 3 is active, its command delivered; locality 4
\* writes STS and INT_ENABLE to no effect and reads all-ones from the FIFO,
\* and a zero byte where its 4-byte read starts at the second FIFO address
C38_Witness ==
  /\ dev.active_locty = 3
  /\ dev.locs[3].state = "TpmTisStateCompletion"
  /\ Untouched(write(Begin, 4, TPM_TIS_REG_STS, <<64>>, DefaultEnv))
  /\ Untouched(write(Begin, 4, TPM_TIS_REG_INT_ENABLE, <<3, 0, 0, 128>>, DefaultEnv))
  /\ read(Begin, 4, TPM_TIS_REG_DATA_XFIFO, 4, DefaultEnv).data = AllOnes(4)
  /\ read(Begin, 4, TPM_TIS_REG_DATA_XFIFO + 1, 4, DefaultEnv).data = <<0, 255, 255, 255>>

\* the changes of TIS state between device state dev and m, as pairs
Moves(m) ==
  {<<dev.locs[l].state, m.locs[l].state>> :
     l \in {k \in Localities : m.locs[k].state # dev.locs[k].state}}

\* the three command flags of an STS value (tpm_tis.rs:636)
StsCommand(data) ==
  LittleEndianU32(data) \cap (TPM_TIS_STS_COMMAND_READY \cup TPM_TIS_STS_TPM_GO
                              \cup TPM_TIS_STS_RESPONSE_RETRY)

\* C39: an MMIO access that returns changes the TIS state of a locality only
\* along these edges: an STS write of COMMAND_READY alone takes it from Idle
\* or Completion to Ready, or from Reception to Ready by the abort toward
\* itself; an STS write of TPM_GO alone takes it from Reception, EXPECT clear,
\* to Execution and, when the delivery in the same call succeeds, on to
\* Completion; a FIFO write takes it from Ready to Reception.  An STS write
\* with none or more than one of COMMAND_READY, TPM_GO, RESPONSE_RETRY, or
\* with RESPONSE_RETRY alone, an ACCESS write and a read change no TIS state,
\* and no locality ever returns to Idle.
C39_StateEdges ==
  \A sel \in CmdLocs :
    /\ \A data \in StsWrites, e \in DeliverEnvs :
         LET m == write(Begin, sel, TPM_TIS_REG_STS, data, e)
             c == StsCommand(data)
         IN ~m.panic =>
              Moves(m) \subseteq
                (IF c = TPM_TIS_STS_COMMAND_READY
                 THEN {<<"TpmTisStateIdle", "TpmTisStateReady">>,
                       <<"TpmTisStateCompletion", "TpmTisStateReady">>,
                       <<"TpmTisStateReception", "TpmTisStateReady">>}
                 ELSE IF c = TPM_TIS_STS_TPM_GO
                         /\ dev.locs[sel].sts \cap TPM_TIS_STS_EXPECT = {}
                 THEN {<<"TpmTisStateReception", "TpmTisStateExecution">>,
                       <<"TpmTisStateReception", "TpmTisStateCompletion">>}
                 ELSE {})
    /\ \A offset \in FifoOffsets, data \in FifoWrites :
         LET m == write(Begin, sel, offset, data, DefaultEnv)
         IN ~m.panic =>
              Moves(m) \subseteq {<<"TpmTisStateReady", "TpmTisStateReception">>}
    /\ \A data \in AccessWrites :
         LET m == write(Begin, sel, TPM_TIS_REG_ACCESS, data, DefaultEnv)
         IN ~m.panic => Moves(m) = {}
    /\ \A offset \in {TPM_TIS_REG_ACCESS, TPM_TIS_REG_STS, TPM_TIS_REG_DATA_XFIFO},
          len \in ReadLens :
         LET m == read(Begin, sel, offset, len, DefaultEnv)
         IN ~m.panic => Moves(m) = {}

\* C39 witness: the active locality 3 has a delivered command, in
\* Completion; COMMAND_READY takes it to Ready, COMMAND_READY with TPM_GO
\* leaves it where it is
C39_Witness ==
  /\ dev.active_locty = 3
  /\ dev.locs[3].state = "TpmTisStateCompletion"
  /\ Moves(write(Begin, 3, TPM_TIS_REG_STS, <<64>>, DefaultEnv))
       = {<<"TpmTisStateCompletion", "TpmTisStateReady">>}
  /\ Moves(write(Begin, 3, TPM_TIS_REG_STS, <<96>>, DefaultEnv)) = {}

\* the selectors above the five localities
HighSelectors == Locs \ Localities

\* C40: an ACCESS write or read whose address selects locality 5, 6 or 7 is
\* served, that is it returns, and it leaves the device state as it was
C40_HighSelectorsServed ==
  \A sel \in HighSelectors :
    /\ \A data \in AccessWrites :
         LET m == write(Begin, sel, TPM_TIS_REG_ACCESS, data, DefaultEnv)
         IN ~m.panic /\ DevOf(m) = dev
    /\ \A len \in ReadLens :
         LET m == read(Begin, sel, TPM_TIS_REG_ACCESS, len, DefaultEnv)
         IN ~m.panic /\ DevOf(m) = dev

====
